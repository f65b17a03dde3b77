---- MODULE MCUnpackSession ----
(* Instances of UnpackSession for TLC. *)
EXTENDS UnpackSession, TLC

CONSTANTS d1, d2, d3

\* Every dex file shows a (name, signature) of its own.
MCKeyOf == [d \in Dex |-> d]

Symmetric == Permutations(Dex)
====
