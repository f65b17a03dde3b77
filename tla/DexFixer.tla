---- MODULE DexFixer ----
(***************************************************************************)
(* The repair of the instructions of a rebuilt dex file (DexFixer.cpp):    *)
(* the VM's optimiser replaced some of them, the fixer walks over every    *)
(* code item and puts the original ones back.                              *)
(*                                                                         *)
(* A code unit is what it means as the first unit of an instruction and    *)
(* what it means as the index of a field: nothing in the file tells the    *)
(* units that begin an instruction from the others.                        *)
(***************************************************************************)
EXTENDS Integers, Sequences

CONSTANTS
  Programs,   \* dex files: their units before the optimiser, their methods
  Word        \* number of values of a size_t

\* What a field holds, and what an access to it says of that: "int" is also float.
Kinds == {"int", "boolean", "byte", "char", "short", "wide", "object"}
Narrow == {"boolean", "byte", "char", "short"}

Fields == {"iget", "iput", "sget", "sput"}

\* "switch" is the data of a switch, "unused" an opcode that has no instruction.
Whats == Fields \cup {"return_void", "object_init", "invoke", "switch", "nop", "unused"}

\* As the compiler made it; "essential" and "quick" replacements of the optimiser.
Forms == {"plain", "essential", "quick"}

Unit == [what : Whats, kind : Kinds, form : Forms, names : Kinds]

\* A method: its first unit and how many it has, and whether it has code at all
\* (codeOff is not zero, not native or abstract, its class is not skipped).
Method == [first : Nat \ {0}, len : Nat, code : BOOLEAN]

Program == [units : Seq(Unit), methods : Seq(Method), heads : SUBSET Nat]

\* Code items begin in the file, though they may end behind it.
ASSUME ProgramAssumption ==
  /\ Programs \subseteq Program
  /\ \A p \in Programs : \A i \in DOMAIN p.methods :
       p.methods[i].code => p.methods[i].first \in DOMAIN p.units

\* An offset in the file fits a size_t.
ASSUME WordAssumption ==
  /\ Word \in Nat \ {0}
  /\ \A p \in Programs :
       \A i \in DOMAIN p.methods : p.methods[i].len < Word

VARIABLES
  program,   \* the dex file as its compiler made it
  given,     \* the units the fixer finds
  insns,     \* the units now
  pc,
  method,    \* the method fixAll is at
  at, left   \* insns and len of fixOptInSns

input == <<program, given>>
vars == <<input, insns, pc, method, at, left>>

TypeOK ==
  /\ program \in Programs
  /\ given \in [DOMAIN program.units -> Unit]
  /\ insns \in [DOMAIN program.units -> Unit]
  /\ pc \in {"method", "walk", "done"}
  /\ method \in 0 .. Len(program.methods)
  /\ at \in Nat \ {0}
  /\ left \in 0 .. (Word - 1)

----------------------------------------------------------------------------
(* Instructions *)

\* gInstructionWidthTable and the widths of data (InstrUtils.cpp:33, 660): the
\* data of a switch is as long as its second unit says, here always four.
WidthOf(what) ==
  CASE what \in Fields                     -> 2
    [] what \in {"object_init", "invoke"}  -> 3
    [] what = "switch"                     -> 4
    [] what \in {"return_void", "nop"}     -> 1
    [] what = "unused"                     -> 0

\* What the optimiser makes of an instruction (Optimize.cpp:205-280): there is
\* one replacement for all the narrow accesses.
Coarse(u) == IF u.what \in Fields /\ u.kind \in Narrow THEN "int" ELSE u.kind

Replaced(u, form) ==
  IF \/ form = "essential" /\ u.what \in Fields \cup {"return_void", "object_init"}
     \/ form = "quick" /\ u.what \in {"iget", "iput", "invoke"}
  THEN [u EXCEPT !.form = form, !.kind = Coarse(u)]
  ELSE u

\* Mutant of Rewritten: the type of the field is not looked at.
RewrittenAlike(u, next) ==
  IF u.form = "essential" /\ u.what \in Fields \cup {"return_void", "object_init"}
  THEN [u EXCEPT !.form = "plain"]
  ELSE u

\* rewriteInvokeObjectInit, rewriteReturnVoid, rewriteInstField,
\* rewriteStaticField: next is the unit that names the field.  A quick
\* instruction is reported and left as it is.
Rewritten(u, next) ==
  IF u.form = "essential" /\ u.what \in Fields \cup {"return_void", "object_init"}
  THEN [u EXCEPT
          !.form = "plain",
          !.kind = IF u.what \in Fields /\ u.kind = "int" /\ next.names \in Narrow
                   THEN next.names ELSE @]
  ELSE u

----------------------------------------------------------------------------
(* Dex files a compiler makes *)

\* heads are the first units of the instructions of p: they follow one another
\* from the start of a code item to its end, and an access to a field says what
\* the field holds.  More of the file lies behind every code item.
WellFormed(p) ==
  /\ \A h \in p.heads :
       /\ h \in DOMAIN p.units
       /\ p.units[h].form = "plain"
       /\ p.units[h].what # "unused"
       /\ \A i \in (h + 1) .. (h + WidthOf(p.units[h].what) - 1) : i \notin p.heads
       /\ p.units[h].what \in Fields =>
            h + 1 \in DOMAIN p.units /\ p.units[h].kind = p.units[h + 1].names
  /\ \A i \in DOMAIN p.methods :
       LET end == p.methods[i].first + p.methods[i].len
       IN  p.methods[i].code =>
             /\ end \in DOMAIN p.units
             /\ p.methods[i].len > 0 => p.methods[i].first \in p.heads
             /\ \A h \in p.heads : h >= p.methods[i].first /\ h < end =>
                  LET next == h + WidthOf(p.units[h].what)
                  IN  next = end \/ (next < end /\ next \in p.heads)

\* The optimiser has replaced some instructions.
Optimised(p, essential, quick) ==
  [i \in DOMAIN p.units |->
     IF i \in essential THEN Replaced(p.units[i], "essential")
     ELSE IF i \in quick THEN Replaced(p.units[i], "quick")
     ELSE p.units[i]]

Init ==
  /\ program \in Programs
  /\ \E essential, quick \in SUBSET program.heads :
       given = Optimised(program, essential, quick)
  /\ insns = given
  /\ pc = "method"
  /\ method = 0
  /\ at = 1
  /\ left = 0

----------------------------------------------------------------------------
(* DexFixer::fixAll *)

NextMethod ==
  /\ pc = "method"
  /\ method < Len(program.methods)
  /\ method' = method + 1
  /\ LET m == program.methods[method + 1]
     IN  IF m.code
         THEN pc' = "walk" /\ at' = m.first /\ left' = m.len
         ELSE UNCHANGED <<pc, at, left>>
  /\ UNCHANGED <<input, insns>>

End ==
  /\ pc = "method"
  /\ method = Len(program.methods)
  /\ pc' = "done"
  /\ UNCHANGED <<input, insns, method, at, left>>

----------------------------------------------------------------------------
(* DexFixer::fixOptInSns *)

\* len is a size_t.
Shorter(len, width) == (len - width) % Word

\* Mutant of Width: the walk goes on with the next unit.
WidthOne == 1

Width == WidthOf(insns[at].what)

\* isValid(insns + width): another unit of the file follows.
Valid == at + Width \in DOMAIN insns

Fix ==
  /\ pc = "walk"
  /\ left > 0
  /\ Valid
  /\ insns' = [insns EXCEPT ![at] = Rewritten(insns[at], insns[at + 1])]
  /\ at' = at + Width
  /\ left' = Shorter(left, Width)
  /\ UNCHANGED <<input, pc, method>>

\* Mutant of Leave: a code item that goes beyond the file is not left.
LeaveEnd ==
  /\ pc = "walk"
  /\ left = 0
  /\ pc' = "method"
  /\ UNCHANGED <<input, insns, method, at, left>>

\* The end of the code item, or of the file.
Leave ==
  /\ pc = "walk"
  /\ left = 0 \/ ~Valid
  /\ pc' = "method"
  /\ UNCHANGED <<input, insns, method, at, left>>

----------------------------------------------------------------------------
(* The specification *)

Next == NextMethod \/ End \/ Fix \/ Leave

Spec == Init /\ [][Next]_vars

\* The dump thread is scheduled.
FairSpec == Spec /\ WF_vars(Next)

----------------------------------------------------------------------------
(* Properties *)

CodeOf(m) == m.first .. (m.first + m.len - 1)

Code == UNION {CodeOf(program.methods[i]) :
                 i \in {j \in DOMAIN program.methods : program.methods[j].code}}

\* What unit i should be in the end: as the compiler made it, but for the quick
\* instructions, which are only reported (DexFixer.cpp:286, 398).
Wanted(i) == IF given[i].form = "quick" THEN given[i] ELSE program.units[i]

\* In a file as compilers make them no operand, no data of a switch, no header of
\* a code item and no method that is passed over is ever taken for an
\* instruction and written (DexFixer.cpp:140-141).
WritesInstructions ==
  WellFormed(program) =>
    \A i \in DOMAIN insns : insns[i] # given[i] => i \in Code \cap program.heads

\* When fixAll is done every instruction of such a file that was replaced is back,
\* the narrow accesses with the kind of their field (DexFixer.cpp:186-360).
Restored ==
  WellFormed(program) /\ pc = "done" => \A i \in Code : insns[i] = Wanted(i)

\* As long as fixAll has not ended it can do something, and something else than
\* before: no place of the walk and no rest of a code item holds it up
\* (DexFixer.cpp:88-93).  FixEnds fails where this does.
NeverStuck == pc # "done" => ENABLED <<Next>>_vars

\* fixAll ends, also when code items are cut off in the middle of an instruction
\* ("Not all the class is valid, just skip the data outside of file",
\* DexFixer.cpp:33-34).
FixEnds == <>(pc = "done")

====
