--------------------------- MODULE MCInvokeHook ----------------------------
(* Model-checking instance of InvokeHook: classes with code and without,   *)
(* a method that just fits, one that does not, and one that does not even  *)
(* with the reserve.                                                       *)
EXTENDS InvokeHook, TLC

CONSTANTS plain, fits, big, huge, native, abstract

MCMethods == {plain, fits, big, huge, native, abstract}
MCMethodsOf ==
  (1 :> <<native, fits>>) @@ (2 :> <<abstract>>) @@ (3 :> <<>>) @@ (4 :> <<huge, big, plain>>)
MCKind == [m \in MCMethods |->
             IF m = native THEN "native" ELSE IF m = abstract THEN "abstract" ELSE "java"]
MCNeed == [m \in MCMethods |->
             CASE m = fits -> 2 [] m = big -> 3 [] m = huge -> 4 [] OTHER -> 1]
=============================================================================
