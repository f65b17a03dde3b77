----------------------------- MODULE InvokeHook -----------------------------
(***************************************************************************)
(* The export hook: DexDumper asks the VM to invoke a method, and the VM   *)
(* hands it to ExportMethod instead of running it (fupkInvokeMethod and    *)
(* dvmInterpret in interp/Interp.cpp, dvmInvokeMethod in interp/Stack.cpp, *)
(* fixMethodByDvm and fupk_ExportMethod in DexHelper/DexDumper.cpp).       *)
(*                                                                         *)
(* A call is told from an export by the value that its result holds before *)
(* the call.  Only dvmInvokeMethod sets that value; the VM's other callers *)
(* pass a JValue they do not initialise.  Once the dump thread has called  *)
(* dvmInvokeMethod, the magic value lies in the memory of frames it has    *)
(* left, and any of these JValues on this thread may hold it.  The threads *)
(* of the application never write it.                                      *)
(*                                                                         *)
(* Modelled is what the dump thread does in DexDumper::rebuild, one dex    *)
(* file after the other.  Left out: running out of memory, and a class     *)
(* loader that itself overflows the stack of the dump thread.              *)
(***************************************************************************)
EXTENDS Integers, Sequences

CONSTANTS Methods,
          NumClasses, MethodsOf,  \* the methods of the class objects, in order
          Kind,                   \* of a method: "java", "native" or "abstract"
          Need,                   \* what its frames take of the interpreter's stack
          Room, Reserve           \* what is left there, and what is kept for overflows

ASSUME MethodsAssumption ==
  /\ NumClasses \in Nat
  /\ MethodsOf \in [1 .. NumClasses -> Seq(Methods)]
  /\ Kind \in [Methods -> {"java", "native", "abstract"}]
  /\ {"wild", "null"} \cap Methods = {}
ASSUME StackAssumption ==
  /\ Need \in [Methods -> Nat]
  /\ Room \in Nat /\ Reserve \in Nat

VARIABLES
  pc,          \* where the dump thread is in rebuild
  class, k,    \* the class it is at, and the method of that class
  mCurMethod,  \* whose code_off fupk_ExportMethod writes
  code,        \* what each method's code_off leads to
  frames,      \* what the dump thread has pushed on the interpreter's stack
  exception,   \* the exception pending on the thread
  overflowed,  \* stackOverflowed: the reserve is open
  magic,       \* may a JValue that is not initialised hold the magic value?
  faults       \* what went wrong so far

at == <<class, k>>
stack == <<frames, overflowed>>
vars == <<pc, at, mCurMethod, code, stack, exception, magic, faults>>

Classes == 1 .. NumClasses

\* The places of the class data: new char[], but for methods without code.
NewData == [m \in Methods |-> IF Kind[m] = "java" THEN "garbage" ELSE "none"]

Init ==
  /\ pc = "off" /\ class = 1 /\ k = 1
  /\ mCurMethod = "wild" /\ code = NewData
  /\ frames = <<>> /\ overflowed = FALSE
  /\ exception = "none" /\ magic = FALSE /\ faults = {}

\* rebuild: a local frame is pushed; mCurMethod of the new DexSharedData is not set
Begin ==
  /\ pc = "off"
  /\ pc' = "class" /\ class' = 1 /\ k' = 1
  /\ frames' = Append(frames, "local")
  /\ mCurMethod' = "wild" /\ code' = NewData
  /\ UNCHANGED <<overflowed, exception, magic, faults>>

-----------------------------------------------------------------------------
(* tryLoadClass, called through JNI.                                       *)

\* jClazz is an object of the class, or null; then loadClassFromDex makes one, or
\* the class data in memory is used, with the code the file has there
FromObject == pc' = "method" /\ UNCHANGED <<at, code>>
FromMemory ==
  /\ pc' = "class" /\ class' = class + 1 /\ k' = 1
  /\ code' = [m \in Methods |->
                IF \E j \in 1 .. Len(MethodsOf[class]) : MethodsOf[class][j] = m
                   /\ Kind[m] = "java"
                THEN "own" ELSE code[m]]
Goes == FromObject \/ FromMemory
Dies == pc' = "dead" /\ UNCHANGED <<at, code>>

\* a method that was to run is exported: dexMethod->codeOff is written through
\* mCurMethod, which kills the process if it is null and may if it is wild
ExportsAnother ==
  CASE mCurMethod \in Methods -> /\ code' = [code EXCEPT ![mCurMethod] = "foreign"]
                                 /\ pc' = "method" /\ UNCHANGED at
    [] mCurMethod = "null"    -> Dies
    [] mCurMethod = "wild"    -> Dies \/ Goes

\* tryLoadClass, or a class initialiser that the VM runs on its way, meets the magic
LoadIsExport ==
  /\ pc = "class" /\ class <= NumClasses /\ magic
  /\ ExportsAnother
  /\ faults' = faults \cup {"magic"}
  /\ UNCHANGED <<mCurMethod, stack, exception, magic>>

\* The interpreter closes the reserve when it sees the StackOverflowError.
SeesPending == overflowed' = (overflowed /\ exception # "overflow")

\* Mutant of LoadReturns: tryLoadClass does not catch what the loader throws.
LoadReturnsUncaught ==
  /\ pc = "class" /\ class <= NumClasses
  /\ \/ exception' = "none" /\ Goes
     \/ exception' = "checked" /\ (Goes \/ Dies)
  /\ SeesPending
  /\ UNCHANGED <<mCurMethod, frames, magic, faults>>

\* tryLoadClass returns a class or null, for it catches every Exception, also one
\* that was pending when it was called; the application's loader may catch an Error
LoadReturns ==
  /\ pc = "class" /\ class <= NumClasses
  /\ exception' = "none"
  /\ Goes
  /\ SeesPending
  /\ UNCHANGED <<mCurMethod, frames, magic, faults>>

\* ... but it catches no Error, one of the application's or one that was pending.
\* What is returned then is undefined and no reference; dvmDecodeIndirectRef may
\* abort the VM.
LoadThrows ==
  /\ pc = "class" /\ class <= NumClasses
  /\ exception' = IF exception = "overflow" THEN "overflow" ELSE "error"
  /\ SeesPending
  /\ faults' = IF exception \in {"error", "overflow"} THEN faults ELSE faults \cup {"error"}
  /\ Goes \/ Dies
  /\ UNCHANGED <<mCurMethod, frames, magic>>

-----------------------------------------------------------------------------
(* fixMethodByDvm, fupkInvokeMethod and dvmInvokeMethod.                   *)

Current == MethodsOf[class][k]
HasMethod == class <= NumClasses /\ k <= Len(MethodsOf[class])

\* back in fixMethodByDvm
NextMethod == pc' = "method" /\ k' = k + 1 /\ mCurMethod' = "null" /\ UNCHANGED class

\* fupkInvokeMethod returns at once
Skip ==
  /\ pc = "method" /\ HasMethod /\ Kind[Current] = "abstract"
  /\ NextMethod
  /\ UNCHANGED <<code, stack, exception, magic, faults>>

\* Mutant of Fits: one byte less.
FitsLess(m) == Need[m] < Room + (IF overflowed THEN Reserve ELSE 0)

Fits(m) == Need[m] <= Room + (IF overflowed THEN Reserve ELSE 0)

\* callPrep pushes a break frame and the method's
Push ==
  /\ pc = "method" /\ HasMethod /\ Kind[Current] # "abstract" /\ Fits(Current)
  /\ mCurMethod' = Current
  /\ frames' = Append(frames, "call")
  /\ magic' = TRUE
  /\ pc' = "export"
  /\ UNCHANGED <<at, code, overflowed, exception, faults>>

\* ... or there is no space, and dvmHandleStackOverflow opens the reserve and throws;
\* the constructor of the StackOverflowError is a call with such a JValue
Overflow ==
  /\ pc = "method" /\ HasMethod /\ Kind[Current] # "abstract" /\ ~Fits(Current)
  /\ ~overflowed
  /\ overflowed' = TRUE /\ exception' = "overflow"
  /\ code' \in {code, [code EXCEPT ![Current] = "foreign"]}
  /\ faults' = faults \cup {"overflow"}
  /\ magic' = TRUE
  /\ NextMethod
  /\ UNCHANGED frames

\* ... and aborts when the reserve was open already
OverflowAgain ==
  /\ pc = "method" /\ HasMethod /\ Kind[Current] # "abstract" /\ ~Fits(Current)
  /\ overflowed
  /\ pc' = "dead"
  /\ UNCHANGED <<at, mCurMethod, code, stack, exception, magic, faults>>

\* Mutant of Export: the frames stay, as after an early return without needPop.
ExportNoPop ==
  /\ pc = "export"
  /\ code' = [code EXCEPT ![mCurMethod] = IF Kind[mCurMethod] = "java" THEN "own" ELSE "none"]
  /\ pc' = "check"
  /\ UNCHANGED <<at, mCurMethod, frames, overflowed, exception, magic, faults>>

\* gFupk.ExportMethod, from dvmInterpret or, for a native method, from
\* dvmInvokeMethod; then dvmPopFrame
Export ==
  /\ pc = "export"
  /\ code' = [code EXCEPT ![mCurMethod] = IF Kind[mCurMethod] = "java" THEN "own" ELSE "none"]
  /\ frames' = SubSeq(frames, 1, Len(frames) - 1)
  /\ pc' = "check"
  /\ UNCHANGED <<at, mCurMethod, overflowed, exception, magic, faults>>

\* Mutant of Check: mCurMethod is not set back to null.
CheckKeeps ==
  /\ pc = "check"
  /\ \/ exception = "none" /\ UNCHANGED <<code, exception>>
     \/ /\ exception # "none" /\ exception' = "checked"
        /\ code' \in {code, [code EXCEPT ![mCurMethod] = "foreign"]}
  /\ pc' = "method" /\ k' = k + 1
  /\ UNCHANGED <<class, mCurMethod, stack, magic, faults>>

\* ... and dvmWrapException if an exception is pending, whichever it is: an
\* InvocationTargetException takes its place, whose constructor is such a call
Check ==
  /\ pc = "check"
  /\ \/ exception = "none" /\ UNCHANGED <<code, exception>>
     \/ /\ exception # "none" /\ exception' = "checked"
        /\ code' \in {code, [code EXCEPT ![mCurMethod] = "foreign"]}
  /\ NextMethod
  /\ UNCHANGED <<stack, magic, faults>>

ClassEnd ==
  /\ pc = "method" /\ ~HasMethod
  /\ pc' = "class" /\ class' = class + 1 /\ k' = 1
  /\ UNCHANGED <<mCurMethod, code, stack, exception, magic, faults>>

\* rebuild returns, and PopLocalFrame
End ==
  /\ pc = "class" /\ class > NumClasses
  /\ pc' = "off"
  /\ frames' = SubSeq(frames, 1, Len(frames) - 1)
  /\ UNCHANGED <<at, mCurMethod, code, overflowed, exception, magic, faults>>

Load == LoadIsExport \/ LoadReturns \/ LoadThrows
Invoke == Skip \/ Push \/ Overflow \/ OverflowAgain \/ Export \/ Check

Next == Begin \/ Load \/ Invoke \/ ClassEnd \/ End

Spec == Init /\ [][Next]_vars

-----------------------------------------------------------------------------
(* Properties.                                                             *)

\* The types of the variables; a method is in hand while it is exported.
TypeOK ==
  /\ pc \in {"off", "class", "method", "export", "check", "dead"}
  /\ class \in 1 .. NumClasses + 1
  /\ k \in Nat \ {0} /\ (pc = "method" => class <= NumClasses /\ k \in 1 .. Len(MethodsOf[class]) + 1)
  /\ mCurMethod \in Methods \cup {"wild", "null"}
  /\ pc \in {"export", "check"} => HasMethod /\ mCurMethod = Current /\ Kind[Current] # "abstract"
  /\ code \in [Methods -> {"garbage", "none", "own", "foreign"}]
  /\ frames \in Seq({"local", "call"})
  /\ exception \in {"none", "checked", "error", "overflow"}
  /\ overflowed \in BOOLEAN /\ magic \in BOOLEAN
  /\ faults \subseteq {"magic", "error", "overflow"}

\* A method's code_off leads to its own code, whatever the JValues hold, unless an
\* Error or an overflow left an exception pending: a call that is taken for an
\* export otherwise meets mCurMethod null or wild, never another method's.
OwnCode ==
  faults \cap {"error", "overflow"} = {} => \A m \in Methods : code[m] # "foreign"

\* The method has been passed, in this dex file.
Passed(m) ==
  \E c \in Classes : \E j \in 1 .. Len(MethodsOf[c]) :
    /\ MethodsOf[c][j] = m
    /\ c < class \/ (c = class /\ pc \in {"method", "export", "check"} /\ j < k)

\* What rebuild has passed has a code_off, or its frames do not fit the stack: no
\* exception, pending or thrown, and no wrapped one makes the hook miss a method.
LeftOutIsTooLarge ==
  pc # "dead" => \A m \in Methods : Passed(m) /\ code[m] = "garbage" => Need[m] > Room

\* Whatever way dvmInvokeMethod takes, the interpreter's stack is as before: there
\* is the local frame between two exports and nothing after rebuild, so that
\* PopLocalFrame finds its frame and the room for the next method is the same.
FramesBalanced ==
  /\ pc \in {"class", "method"} => frames = <<"local">>
  /\ pc = "off" => frames = <<>>

\* The hook and the loading of classes kill the process only if a JValue held the
\* magic value, a class initialiser threw an Error, or a method did not fit.
DeathHasCause == pc = "dead" => faults # {}
=============================================================================
