---- MODULE MCDexFixer ----
(* Three dex files of one layout: a method with narrow, wide and object        *)
(* accesses; a unit that looks like a replaced instruction; a method with data *)
(* of a switch that looks like replaced instructions.                          *)
EXTENDS DexFixer

U(what, kind, names) == [what |-> what, kind |-> kind, form |-> "plain", names |-> names]

\* A unit that names a field and, taken for an instruction, is a replaced one.
Lure(names) == [what |-> "sget", kind |-> "int", form |-> "essential", names |-> names]

MCUnits == <<
  U("iget", "boolean", "int"), Lure("boolean"),
  U("sput", "wide", "int"), Lure("wide"),
  U("return_void", "int", "int"),
  Lure("byte"),
  U("object_init", "int", "int"), Lure("char"), Lure("short"),
  U("switch", "int", "int"), Lure("byte"), Lure("boolean"), Lure("int"),
  U("iput", "object", "int"), Lure("object"),
  U("return_void", "int", "int"), Lure("byte") >>

MCMethods == <<
  [first |-> 1, len |-> 5, code |-> TRUE],
  [first |-> 16, len |-> 1, code |-> FALSE],
  [first |-> 7, len |-> 9, code |-> TRUE] >>

MCHeads == {1, 3, 5, 7, 10, 14, 16}

Whole == [units |-> MCUnits, methods |-> MCMethods, heads |-> MCHeads]

\* The first method ends inside its second instruction, the last one at the end
\* of the file.
CutOff == [Whole EXCEPT !.methods = <<
  [first |-> 1, len |-> 3, code |-> TRUE],
  [first |-> 16, len |-> 2, code |-> TRUE] >>]

\* The first method holds an opcode without an instruction.
Junk == [Whole EXCEPT !.units = [@ EXCEPT ![5] = U("unused", "int", "int")]]

MCPrograms == {Whole, CutOff}
MCJunk == {Junk}

\* The instance is what it is meant to be.
ASSUME WellFormed(Whole) /\ ~WellFormed(CutOff) /\ ~WellFormed(Junk)

====
