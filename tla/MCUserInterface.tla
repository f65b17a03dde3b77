-------------------------- MODULE MCUserInterface ---------------------------
(* Model-checking instance of UserInterface: one package whose process is  *)
(* followed, and one with results of an earlier run, or without.           *)
EXTENDS UserInterface, TLC

CONSTANTS a, b, a1

MCPackageOf == a1 :> a
MCMainProcess == a :> a1 @@ b :> NoProcess
=============================================================================
