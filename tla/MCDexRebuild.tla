---- MODULE MCDexRebuild ----
(* Instances of DexRebuild for TLC. *)
EXTENDS DexRebuild

\* Class 0 has a direct method and four virtual ones, of which 7 is native or
\* abstract and the code_off of 3 was erased; class 1 has method 12, and 13 is only
\* referred to: another dex file's class of that name may have both; class 2 has
\* fields only and class 3 nothing; class 4 has a method, but its class_data_off
\* was erased.
MCMethodId == {1, 2, 3, 7, 9, 12, 13, 20}

MCMethod == MCMethodId \ {13}

MCClassOf ==
  [m \in MCMethodId |-> CASE m < 12 -> 0 [] m \in {12, 13} -> 1 [] m = 20 -> 4]

MCListOf == [m \in MCMethod |-> IF m \in {1, 12} THEN "direct" ELSE "virtual"]

\* Lengths with every remainder modulo 4.
MCSizeOf == [m \in MCMethod |-> 16 + m]
====
