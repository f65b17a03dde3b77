------------------------- MODULE InvokeHook_proofs -------------------------
(***************************************************************************)
(* TLAPS proofs about InvokeHook: for every set of classes and methods and *)
(* every size of the stack, a method keeps its own code unless an Error or *)
(* an overflow of the stack came between, only a method too large for the  *)
(* stack is left out, the frames are balanced, and a death has a cause.    *)
(***************************************************************************)
EXTENDS InvokeHook, TLAPS, SequenceTheorems

\* The frames at each place of rebuild.
FramesInv ==
  /\ pc \in {"class", "method", "check"} => frames = <<"local">>
  /\ pc = "export" => frames = Append(<<"local">>, "call")
  /\ pc = "off" => frames = <<>>

\* No method is in hand while a class is loaded, and what is pending or open was
\* noted as a fault.
BlameInv ==
  /\ pc \in {"class", "method"} => mCurMethod \notin Methods
  /\ exception # "none" \/ overflowed => faults \cap {"error", "overflow"} # {}
  /\ OwnCode
  /\ DeathHasCause

\* A method that was exported or has no code is not left as new char[] left it.
LeftInv ==
  /\ pc = "class" => k = 1
  /\ pc = "check" => code[mCurMethod] # "garbage"
  /\ \A m \in Methods : Kind[m] # "java" => code[m] # "garbage"
  /\ LeftOutIsTooLarge

IInv == TypeOK /\ FramesInv /\ BlameInv /\ LeftInv

-----------------------------------------------------------------------------
\* Taking the last frame off gives the stack before it was pushed.
LEMMA PopPush ==
  ASSUME NEW S, NEW s \in Seq(S), NEW e \in S
  PROVE  SubSeq(Append(s, e), 1, Len(Append(s, e)) - 1) = s
<1>1. Append(s, e) \in Seq(S) /\ Len(Append(s, e)) = Len(s) + 1
  OBVIOUS
<1>2. \A i \in 1 .. Len(s) : Append(s, e)[i] = s[i]
  OBVIOUS
<1>3. SubSeq(Append(s, e), 1, Len(s)) = s
  <2> DEFINE t == SubSeq(Append(s, e), 1, Len(s))
  <2>1. /\ t \in Seq(S) /\ Len(t) = Len(s)
        /\ \A i \in 1 .. Len(s) : t[i] = s[i]
    BY <1>1, <1>2
  <2>2. QED
    BY <2>1, SeqEqual
<1>4. QED
  BY <1>1, <1>3

\* Where the class objects and their methods are.
LEMMA ClassTypes ==
  /\ \A c \in Classes : Len(MethodsOf[c]) \in Nat
  /\ \A c \in Classes : \A j \in 1 .. Len(MethodsOf[c]) : MethodsOf[c][j] \in Methods
BY MethodsAssumption DEF Classes

\* The method in hand is one of the class.
LEMMA CurrentType ==
  ASSUME TypeOK, HasMethod, pc = "method" \/ pc = "export" \/ pc = "check"
  PROVE  /\ Current \in Methods /\ class \in Classes
         /\ k \in 1 .. Len(MethodsOf[class])
<1>1. class \in Classes
  BY MethodsAssumption DEF TypeOK, HasMethod, Classes
<1>2. QED
  BY <1>1, ClassTypes DEF TypeOK, HasMethod, Current

-----------------------------------------------------------------------------
\* Init establishes the inductive invariant.
LEMMA InitIInv == Init => IInv
<1> SUFFICES ASSUME Init
             PROVE  IInv
  OBVIOUS
<1>1. TypeOK
  <2>1. code \in [Methods -> {"garbage", "none", "own", "foreign"}]
    BY DEF Init, NewData
  <2>2. overflowed \in BOOLEAN /\ magic \in BOOLEAN
    BY DEF Init
  <2>3. frames \in Seq({"local", "call"}) /\ class \in 1 .. NumClasses + 1
    BY MethodsAssumption DEF Init
  <2>4. QED
    BY <2>1, <2>2, <2>3 DEF Init, TypeOK
<1>2. FramesInv
  BY DEF Init, FramesInv
<1>3. BlameInv
  BY DEF Init, BlameInv, OwnCode, DeathHasCause, NewData
<1>4. LeftInv
  BY MethodsAssumption DEF Init, LeftInv, LeftOutIsTooLarge, Passed, NewData, Classes
<1>5. QED
  BY <1>1, <1>2, <1>3, <1>4 DEF IInv

\* Whatever loading a class comes to, rebuild goes on with the methods of the class
\* or with the next class, or the process is dead.
LEMMA GoesTypes ==
  ASSUME TypeOK, LeftInv, pc = "class", class <= NumClasses, Goes \/ Dies
  PROVE  /\ pc' \in {"class", "method", "dead"}
         /\ class' \in 1 .. NumClasses + 1 /\ k' \in Nat \ {0}
         /\ pc' = "method" => class' <= NumClasses /\ k' \in 1 .. Len(MethodsOf[class']) + 1
         /\ code' \in [Methods -> {"garbage", "none", "own", "foreign"}]
<1>1. class \in Classes /\ class + 1 \in 1 .. NumClasses + 1 /\ k = 1
  BY MethodsAssumption DEF TypeOK, LeftInv, Classes
<1>2. 1 \in 1 .. Len(MethodsOf[class]) + 1
  BY <1>1, ClassTypes
<1>3. CASE FromObject
  BY <1>1, <1>2, <1>3, MethodsAssumption DEF FromObject, TypeOK, at, Classes
<1>4. CASE FromMemory
  <2>1. code' \in [Methods -> {"garbage", "none", "own", "foreign"}]
    BY <1>4 DEF FromMemory, TypeOK
  <2>2. QED
    BY <1>1, <1>4, <2>1 DEF FromMemory
<1>5. CASE Dies
  BY <1>5 DEF Dies, TypeOK, at
<1>6. QED
  BY <1>3, <1>4, <1>5 DEF Goes

\* Every step keeps the types.
LEMMA NextTypeOK == TypeOK /\ LeftInv /\ BlameInv /\ [Next]_vars => TypeOK'
<1> SUFFICES ASSUME TypeOK, LeftInv, BlameInv, [Next]_vars
             PROVE  TypeOK'
  OBVIOUS
<1>1. CASE Begin
  BY <1>1, MethodsAssumption DEF Begin, TypeOK, NewData
<1>2. CASE LoadIsExport
  <2>1. mCurMethod \notin Methods => Goes \/ Dies
    BY <1>2 DEF LoadIsExport, ExportsAnother, TypeOK
  <2>2. QED
    BY <1>2, <2>1, GoesTypes DEF LoadIsExport, TypeOK, BlameInv, stack, HasMethod
<1>3. CASE LoadReturns
  BY <1>3, GoesTypes DEF LoadReturns, SeesPending, TypeOK, HasMethod
<1>4. CASE LoadThrows
  BY <1>4, GoesTypes DEF LoadThrows, SeesPending, TypeOK, HasMethod
<1>5. CASE Skip
  BY <1>5, CurrentType DEF Skip, TypeOK, NextMethod, HasMethod, stack
<1>6. CASE Push
  BY <1>6, MethodsAssumption, CurrentType DEF Push, TypeOK, at, HasMethod, Current
<1>7. CASE Overflow
  BY <1>7, CurrentType DEF Overflow, TypeOK, NextMethod, HasMethod, stack
<1>8. CASE OverflowAgain
  BY <1>8, MethodsAssumption DEF OverflowAgain, TypeOK, at, stack
<1>9. CASE Export
  BY <1>9, MethodsAssumption, CurrentType DEF Export, TypeOK, at, HasMethod, Current
<1>10. CASE Check
  BY <1>10, CurrentType DEF Check, TypeOK, NextMethod, HasMethod, stack
<1>11. CASE ClassEnd
  BY <1>11, MethodsAssumption DEF ClassEnd, TypeOK, stack, HasMethod
<1>12. CASE End
  BY <1>12, MethodsAssumption DEF End, TypeOK, at
<1>13. CASE UNCHANGED vars
  BY <1>13 DEF vars, at, stack, TypeOK, HasMethod, Current
<1>14. QED
  BY <1>1, <1>2, <1>3, <1>4, <1>5, <1>6, <1>7, <1>8, <1>9, <1>10, <1>11, <1>12, <1>13
     DEF Next, Load, Invoke
-----------------------------------------------------------------------------
\* Every step keeps the frames balanced.
LEMMA NextFrames == TypeOK /\ BlameInv /\ FramesInv /\ [Next]_vars => FramesInv'
<1> SUFFICES ASSUME TypeOK, BlameInv, FramesInv, [Next]_vars
             PROVE  FramesInv'
  OBVIOUS
<1>1. CASE Begin
  <2>1. Append(<<>>, "local") = <<"local">>
    OBVIOUS
  <2>2. QED
    BY <1>1, <2>1 DEF Begin, FramesInv
<1>2. CASE LoadIsExport
  <2>1. Goes \/ Dies
    BY <1>2 DEF LoadIsExport, ExportsAnother, TypeOK, BlameInv
  <2>2. QED
    BY <1>2, <2>1 DEF LoadIsExport, Goes, FromObject, FromMemory, Dies, FramesInv, stack
<1>3. CASE LoadReturns
  BY <1>3 DEF LoadReturns, Goes, FromObject, FromMemory, Dies, FramesInv
<1>4. CASE LoadThrows
  BY <1>4 DEF LoadThrows, Goes, FromObject, FromMemory, Dies, FramesInv
<1>5. CASE Skip
  BY <1>5 DEF Skip, NextMethod, FramesInv, stack
<1>6. CASE Push
  BY <1>6 DEF Push, FramesInv
<1>7. CASE Overflow
  BY <1>7 DEF Overflow, NextMethod, FramesInv, stack
<1>8. CASE OverflowAgain
  BY <1>8 DEF OverflowAgain, FramesInv, stack
<1>9. CASE Export
  <2>1. frames = Append(<<"local">>, "call")
    BY <1>9 DEF Export, FramesInv
  <2>2. <<"local">> \in Seq({"local", "call"})
    OBVIOUS
  <2>3. frames' = <<"local">>
    BY <1>9, <2>1, <2>2, PopPush DEF Export
  <2>4. QED
    BY <1>9, <2>3 DEF Export, FramesInv
<1>10. CASE Check
  BY <1>10 DEF Check, NextMethod, FramesInv, stack
<1>11. CASE ClassEnd
  BY <1>11 DEF ClassEnd, FramesInv, stack
<1>12. CASE End
  <2>1. frames = <<"local">> /\ Len(frames) - 1 = 0
    BY <1>12 DEF End, FramesInv
  <2>2. SubSeq(frames, 1, 0) = <<>>
    BY SubSeqEmpty
  <2>3. QED
    BY <1>12, <2>1, <2>2 DEF End, FramesInv
<1>13. CASE UNCHANGED vars
  BY <1>13 DEF vars, at, stack, FramesInv
<1>14. QED
  BY <1>1, <1>2, <1>3, <1>4, <1>5, <1>6, <1>7, <1>8, <1>9, <1>10, <1>11, <1>12, <1>13
     DEF Next, Load, Invoke

-----------------------------------------------------------------------------
\* Loading a class leaves every method its code.
LEMMA GoesOwn ==
  ASSUME TypeOK, Goes \/ Dies, NEW m \in Methods, code[m] # "foreign"
  PROVE  code'[m] # "foreign"
  BY DEF TypeOK, Goes, Dies, FromObject, FromMemory

\* Every step keeps the causes known.
LEMMA NextBlame == TypeOK /\ BlameInv /\ [Next]_vars => BlameInv'
<1> SUFFICES ASSUME TypeOK, BlameInv, [Next]_vars
             PROVE  BlameInv'
  OBVIOUS
<1> DEFINE Hand == pc \in {"class", "method"} => mCurMethod \notin Methods
           Noted == exception # "none" \/ overflowed => faults \cap {"error", "overflow"} # {}
<1>1. CASE Begin
  BY <1>1, MethodsAssumption DEF Begin, BlameInv, OwnCode, DeathHasCause, NewData
<1>2. CASE LoadIsExport
  <2>1. Goes \/ Dies
    BY <1>2 DEF LoadIsExport, ExportsAnother, TypeOK, BlameInv
  <2>2. Hand' /\ Noted'
    BY <1>2 DEF LoadIsExport, BlameInv, stack
  <2>3. OwnCode'
    BY <1>2, <2>1, GoesOwn DEF LoadIsExport, BlameInv, OwnCode
  <2>4. DeathHasCause'
    BY <1>2 DEF LoadIsExport, DeathHasCause
  <2>5. QED
    BY <2>2, <2>3, <2>4 DEF BlameInv
<1>3. CASE LoadReturns
  <2>1. Hand' /\ Noted'
    BY <1>3 DEF LoadReturns, BlameInv, SeesPending
  <2>2. OwnCode'
    BY <1>3, GoesOwn DEF LoadReturns, BlameInv, OwnCode
  <2>3. DeathHasCause'
    BY <1>3 DEF LoadReturns, BlameInv, DeathHasCause, Goes, FromObject, FromMemory
  <2>4. QED
    BY <2>1, <2>2, <2>3 DEF BlameInv
<1>4. CASE LoadThrows
  <2>1. Hand' /\ Noted'
    BY <1>4 DEF LoadThrows, BlameInv, SeesPending
  <2>2. OwnCode'
    BY <1>4, GoesOwn DEF LoadThrows, BlameInv, OwnCode
  <2>3. DeathHasCause'
    BY <1>4 DEF LoadThrows, BlameInv, DeathHasCause, Goes, FromObject, FromMemory
  <2>4. QED
    BY <2>1, <2>2, <2>3 DEF BlameInv
<1>5. CASE Skip
  BY <1>5, MethodsAssumption DEF Skip, TypeOK, BlameInv, OwnCode, DeathHasCause, NextMethod, stack
<1>6. CASE Push
  BY <1>6 DEF Push, BlameInv, OwnCode, DeathHasCause, stack
<1>7. CASE Overflow
  BY <1>7, MethodsAssumption DEF Overflow, TypeOK, BlameInv, OwnCode, DeathHasCause, NextMethod, stack
<1>8. CASE OverflowAgain
  BY <1>8 DEF OverflowAgain, BlameInv, OwnCode, DeathHasCause, stack
<1>9. CASE Export
  BY <1>9 DEF Export, TypeOK, BlameInv, OwnCode, DeathHasCause
<1>10. CASE Check
  BY <1>10, MethodsAssumption DEF Check, TypeOK, BlameInv, OwnCode, DeathHasCause, NextMethod, stack
<1>11. CASE ClassEnd
  BY <1>11 DEF ClassEnd, BlameInv, OwnCode, DeathHasCause, stack
<1>12. CASE End
  BY <1>12 DEF End, BlameInv, OwnCode, DeathHasCause, stack
<1>13. CASE UNCHANGED vars
  BY <1>13 DEF vars, at, stack, BlameInv, OwnCode, DeathHasCause
<1>14. QED
  BY <1>1, <1>2, <1>3, <1>4, <1>5, <1>6, <1>7, <1>8, <1>9, <1>10, <1>11, <1>12, <1>13
     DEF Next, Load, Invoke
-----------------------------------------------------------------------------
\* Loading a class passes no method, or those of a class that is taken from memory.
LEMMA GoesLeft ==
  ASSUME TypeOK, LeftInv, pc = "class", class <= NumClasses, Goes \/ Dies
  PROVE  LeftInv'
<1>1. class \in Classes /\ k = 1
  BY MethodsAssumption DEF TypeOK, LeftInv, Classes
<1>2. CASE FromObject
  <2>1. \A m \in Methods : Passed(m)' => Passed(m)
    BY <1>1, <1>2, ClassTypes DEF FromObject, Passed, at, Classes
  <2>2. QED
    BY <1>2, <2>1 DEF FromObject, LeftInv, LeftOutIsTooLarge
<1>3. CASE FromMemory
  <2>1. \A m \in Methods : code'[m] = "garbage" => code[m] = "garbage"
    BY <1>3 DEF FromMemory
  <2>2. ASSUME NEW m \in Methods, Passed(m)', code'[m] = "garbage"
        PROVE  Passed(m)
    <3>1. PICK c \in Classes :
            c < class + 1 /\ \E j \in 1 .. Len(MethodsOf[c]) : MethodsOf[c][j] = m
      BY <1>3, <2>2 DEF FromMemory, Passed
    <3>2. CASE c = class
      <4>1. Kind[m] # "java"
        BY <1>3, <2>2, <3>1, <3>2 DEF FromMemory
      <4>2. QED
        BY <2>1, <2>2, <4>1 DEF LeftInv
    <3>3. CASE c # class
      <4>1. c < class
        BY <1>1, <3>1, <3>3 DEF Classes
      <4>2. QED
        BY <3>1, <4>1 DEF Passed
    <3>4. QED
      BY <3>2, <3>3
  <2>3. QED
    BY <1>3, <2>1, <2>2 DEF FromMemory, LeftInv, LeftOutIsTooLarge
<1>4. CASE Dies
  BY <1>4 DEF Dies, LeftInv, LeftOutIsTooLarge
<1>5. QED
  BY <1>2, <1>3, <1>4 DEF Goes

\* The loop counts one method further: only the one at hand is newly passed.
LEMMA NextPasses ==
  ASSUME TypeOK, pc \in {"method", "check"}, HasMethod, NextMethod,
         NEW m \in Methods, Passed(m)'
  PROVE  Passed(m) \/ m = Current
<1>1. PICK c \in Classes : \E j \in 1 .. Len(MethodsOf[c]) :
        /\ MethodsOf[c][j] = m
        /\ c < class \/ (c = class /\ j < k + 1)
  BY DEF NextMethod, Passed
<1> PICK j \in 1 .. Len(MethodsOf[c]) :
      /\ MethodsOf[c][j] = m
      /\ c < class \/ (c = class /\ j < k + 1)
  BY <1>1
<1>2. k \in Nat /\ j \in Nat
  BY ClassTypes DEF TypeOK
<1>3. CASE c = class /\ j = k
  BY <1>3 DEF Current
<1>4. CASE c < class \/ (c = class /\ j < k)
  BY <1>4 DEF Passed
<1>5. QED
  BY <1>2, <1>3, <1>4

\* Every step leaves out what is too large only.
LEMMA NextLeft == TypeOK /\ BlameInv /\ LeftInv /\ [Next]_vars => LeftInv'
<1> SUFFICES ASSUME TypeOK, BlameInv, LeftInv, [Next]_vars
             PROVE  LeftInv'
  OBVIOUS
<1>1. CASE Begin
  <2>1. \A m \in Methods : ~Passed(m)'
    BY <1>1 DEF Begin, Passed, Classes
  <2>2. QED
    BY <1>1, <2>1, MethodsAssumption DEF Begin, LeftInv, LeftOutIsTooLarge, NewData
<1>2. CASE LoadIsExport
  <2>1. Goes \/ Dies
    BY <1>2 DEF LoadIsExport, ExportsAnother, TypeOK, BlameInv
  <2>2. QED
    BY <1>2, <2>1, GoesLeft DEF LoadIsExport
<1>3. CASE LoadReturns
  BY <1>3, GoesLeft DEF LoadReturns
<1>4. CASE LoadThrows
  BY <1>4, GoesLeft DEF LoadThrows
<1>5. CASE Skip
  <2>1. code[Current] # "garbage"
    BY <1>5, CurrentType DEF Skip, LeftInv
  <2>2. QED
    BY <1>5, <2>1, NextPasses DEF Skip, NextMethod, LeftInv, LeftOutIsTooLarge
<1>6. CASE Push
  <2>1. \A m \in Methods : Passed(m)' => Passed(m)
    BY <1>6 DEF Push, Passed, at
  <2>2. QED
    BY <1>6, <2>1 DEF Push, LeftInv, LeftOutIsTooLarge
<1>7. CASE Overflow
  <2>1. Current \in Methods /\ Need[Current] > Room
    BY <1>7, CurrentType, StackAssumption DEF Overflow, Fits
  <2>2. \A m \in Methods : code'[m] = "garbage" => code[m] = "garbage"
    BY <1>7, <2>1 DEF Overflow, TypeOK
  <2>3. QED
    BY <1>7, <2>1, <2>2, NextPasses DEF Overflow, NextMethod, LeftInv, LeftOutIsTooLarge
<1>8. CASE OverflowAgain
  BY <1>8 DEF OverflowAgain, LeftInv, LeftOutIsTooLarge
<1>9. CASE Export
  <2>1. \A m \in Methods : Passed(m)' => Passed(m)
    BY <1>9 DEF Export, Passed, at
  <2>2. /\ code'[mCurMethod] # "garbage"
        /\ \A m \in Methods : code'[m] = "garbage" => code[m] = "garbage"
    BY <1>9, CurrentType DEF Export, TypeOK
  <2>3. QED
    BY <1>9, <2>1, <2>2 DEF Export, LeftInv, LeftOutIsTooLarge
<1>10. CASE Check
  <2>1. /\ code[Current] # "garbage" /\ HasMethod
        /\ \A m \in Methods : code'[m] = "garbage" => code[m] = "garbage"
    BY <1>10 DEF Check, TypeOK, LeftInv
  <2>2. QED
    BY <1>10, <2>1, NextPasses DEF Check, NextMethod, LeftInv, LeftOutIsTooLarge
<1>11. CASE ClassEnd
  <2>1. class \in Classes /\ k = Len(MethodsOf[class]) + 1
    BY <1>11, ClassTypes, MethodsAssumption DEF ClassEnd, HasMethod, TypeOK, Classes
  <2>2. ASSUME NEW m \in Methods, Passed(m)'
        PROVE  Passed(m)
    <3>1. PICK c \in Classes :
            c < class + 1 /\ \E j \in 1 .. Len(MethodsOf[c]) : MethodsOf[c][j] = m
      BY <1>11, <2>2 DEF ClassEnd, Passed
    <3>2. CASE c = class
      <4>1. \A j \in 1 .. Len(MethodsOf[c]) : j < k
        BY <2>1, <3>2, ClassTypes
      <4>2. QED
        BY <1>11, <3>1, <3>2, <4>1 DEF ClassEnd, Passed
    <3>3. CASE c # class
      <4>1. c < class
        BY <2>1, <3>1, <3>3 DEF Classes
      <4>2. QED
        BY <3>1, <4>1 DEF Passed
    <3>4. QED
      BY <3>2, <3>3
  <2>3. QED
    BY <1>11, <2>2 DEF ClassEnd, LeftInv, LeftOutIsTooLarge
<1>12. CASE End
  <2>1. \A m \in Methods : Passed(m)' => Passed(m)
    BY <1>12 DEF End, Passed, at
  <2>2. QED
    BY <1>12, <2>1 DEF End, LeftInv, LeftOutIsTooLarge
<1>13. CASE UNCHANGED vars
  BY <1>13 DEF vars, at, stack, LeftInv, LeftOutIsTooLarge, Passed
<1>14. QED
  BY <1>1, <1>2, <1>3, <1>4, <1>5, <1>6, <1>7, <1>8, <1>9, <1>10, <1>11, <1>12, <1>13
     DEF Next, Load, Invoke

-----------------------------------------------------------------------------
\* The inductive invariant holds in every state.
THEOREM IInvHolds == Spec => []IInv
<1>1. IInv /\ [Next]_vars => IInv'
  BY NextTypeOK, NextFrames, NextBlame, NextLeft DEF IInv
<1>2. QED
  BY <1>1, InitIInv, PTL DEF Spec

\* The variables keep their types, and the method that is exported is the one the
\* loops of rebuild are at.
THEOREM TypesHold == Spec => []TypeOK
<1>1. IInv => TypeOK
  BY DEF IInv
<1>2. QED
  BY <1>1, IInvHolds, PTL

\* A method's code_off leads to its own code, whatever the uninitialised JValues
\* hold, unless an Error or an overflow left an exception pending.
THEOREM OwnCodeHolds == Spec => []OwnCode
<1>1. IInv => OwnCode
  BY DEF IInv, BlameInv
<1>2. QED
  BY <1>1, IInvHolds, PTL

\* What rebuild has passed has a code_off, or its frames do not fit the stack.
THEOREM LeftOutHolds == Spec => []LeftOutIsTooLarge
<1>1. IInv => LeftOutIsTooLarge
  BY DEF IInv, LeftInv
<1>2. QED
  BY <1>1, IInvHolds, PTL

\* Whatever way dvmInvokeMethod takes, the interpreter's stack is as before.
THEOREM FramesHold == Spec => []FramesBalanced
<1>1. IInv => FramesBalanced
  BY DEF IInv, FramesInv, FramesBalanced
<1>2. QED
  BY <1>1, IInvHolds, PTL

\* The process dies only after a JValue held the magic value, a class initialiser
\* threw an Error, or a method did not fit.
THEOREM DeathHasCauseHolds == Spec => []DeathHasCause
<1>1. IInv => DeathHasCause
  BY DEF IInv, BlameInv
<1>2. QED
  BY <1>1, IInvHolds, PTL
=============================================================================
