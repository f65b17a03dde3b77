--------------------------- MODULE MCDexFileTable ---------------------------
(***************************************************************************)
(* Instances of DexFileTable.                                              *)
(***************************************************************************)
EXTENDS DexFileTable, TLC

CONSTANTS a, b, c

\* a and b meet in the last slot of a table of 2 or 4, so that one of them wraps, and
\* part in a table of 8, as aligned addresses do in larger tables
MCWrapping == [d \in Dexes |-> IF d = a THEN 7 ELSE 3]

\* addresses as malloc gives them: all begin at slot 0 of a small table
MCAligned == [d \in Dexes |-> IF d = a THEN 8 ELSE IF d = b THEN 16 ELSE 24]
Symmetric == Permutations(Dexes)

=============================================================================
