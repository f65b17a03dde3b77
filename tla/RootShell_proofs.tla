---- MODULE RootShell_proofs ----
(***************************************************************************)
(* TLAPS proofs about RootShell: for every number of threads, whatever     *)
(* each of them does and however often the shell dies, a caller reads the  *)
(* answer to its own call, nobody waits for an answer that will not come,  *)
(* and without a death or a hang of the shell the application does not     *)
(* crash.                                                                  *)
(***************************************************************************)
EXTENDS RootShell, TLAPS

----------------------------------------------------------------------------
(* The inductive invariant behind TypeOK, OwnAnswer, Answered and          *)
(* CrashHasCause.                                                          *)

\* Only the thread in the monitor waits, and for the call it has made.
LockInv ==
  /\ \A t \in Threads : pc[t] \in {"opening", "waiting"} <=> lock = t
  /\ \A t \in Threads : pc[t] = "opening" => CallOf(t) = "start"
  /\ \A t \in Threads : pc[t] = "waiting" => CallOf(t) # "start"

\* There is one command or one answer at a time, and it is that thread's.
AnswerInv ==
  /\ running => lock \in Threads
  /\ asked # NoThread => running /\ asked = lock
  /\ \A a \in posted :
       /\ running /\ asked = NoThread
       /\ a.to = lock /\ a.call = at[lock]
       /\ posted = {a}

\* A thread between startShell and the end of its job.
Ready(t) == pc[t] \in {"next", "waiting"} /\ CallOf(t) # "start"

\* Without a death or a hang a shell is there for every thread that was told so,
\* and every command is answered.
CauseInv ==
  faults = 0 =>
    /\ crash = "none"
    /\ \A t \in Threads : Ready(t) => shell = "alive"
    /\ \A t, u \in Threads : ~(Ready(t) /\ pc[u] = "opening")
    /\ \A t \in Threads : pc[t] = "opening" =>
         shell = "alive" \/ (~running /\ last.exit # "ok")
    /\ \A t \in Threads : pc[t] = "waiting" =>
         /\ \A a \in posted : a.exit = "ok" /\ a.output \in Said(t)
         /\ ~running => last.exit = "ok" /\ last.output \in Said(t)

IInv == TypeOK /\ LockInv /\ AnswerInv /\ OwnAnswer /\ Answered /\ CauseInv

Calls == {"start", "ask", "run"}

\* Every job has a first call, which is startShell.
LEMMA ScriptFacts ==
  ASSUME NEW j \in Jobs
  PROVE  /\ Len(Script[j]) \in Nat \ {0}
         /\ Script[j][1] = "start"
         /\ \A i \in 1 .. Len(Script[j]) : Script[j][i] \in Calls
<1>1. CASE j = "UPK"
  BY <1>1 DEF Script, Calls
<1>2. CASE j = "DEL"
  BY <1>2 DEF Script, Calls
<1>3. CASE j = "CPY"
  BY <1>3 DEF Script, Calls
<1>4. CASE j = "Tick"
  BY <1>4 DEF Script, Calls
<1>5. QED
  BY <1>1, <1>2, <1>3, <1>4 DEF Jobs

\* The place of a thread in its script names a call.
LEMMA CallType ==
  ASSUME TypeOK, NEW t \in Threads
  PROVE  CallOf(t) \in Calls /\ at[t] \in Nat /\ Len(Script[job[t]]) \in Nat
  BY ScriptFacts DEF TypeOK, InScript, CallOf

\* Init establishes the inductive invariant.
LEMMA InitIInv == Init => IInv
<1> SUFFICES ASSUME Init
             PROVE  IInv
  OBVIOUS
<1>1. \A t \in Threads : InScript(t)
  <2>1. "Tick" \in Jobs
    BY DEF Jobs
  <2>2. ASSUME NEW t \in Threads
        PROVE  InScript(t)
    <3>1. at[t] = 1 /\ job[t] = "Tick"
      BY DEF Init
    <3>2. Len(Script[job[t]]) \in Nat \ {0}
      BY <2>1, <3>1, ScriptFacts
    <3>3. QED
      BY <3>1, <3>2 DEF InScript
  <2>3. QED
    BY <2>2
<1>2. TypeOK
  <2>1. 0 \in 0 .. MaxFaults
    BY BoundAssumption
  <2>2. QED
    BY <1>1, <2>1 DEF Init, TypeOK, Jobs
<1>3. QED
  BY <1>2, ThreadAssumption
     DEF Init, IInv, LockInv, AnswerInv, OwnAnswer, Answered, CauseInv, Ready, Wakes

\* When nobody is in the monitor, or its owner has been woken, no command and no
\* answer is under way.
LEMMA Quiet ==
  ASSUME IInv
  PROVE  /\ lock = NoThread => ~running
         /\ ~running => asked = NoThread /\ posted = {}
  BY ThreadAssumption DEF IInv, AnswerInv

\* Going on with a job keeps the place in the script.
LEMMA AdvanceType ==
  ASSUME TypeOK, NEW t \in Threads, NEW goes \in BOOLEAN, Advance(t, goes)
  PROVE  /\ pc' \in [Threads -> {"idle", "next", "opening", "waiting"}]
         /\ job' \in [Threads -> Jobs]
         /\ at' \in [Threads -> Nat]
         /\ \A u \in Threads : InScript(u)'
<1> USE DEF TypeOK
<1>1. /\ pc' \in [Threads -> {"idle", "next", "opening", "waiting"}]
      /\ job' = job
  BY DEF Advance
<1> DEFINE more == goes /\ at[t] < Len(Script[job[t]])
<1>2. /\ at' = [at EXCEPT ![t] = IF more THEN at[t] + 1 ELSE at[t]]
      /\ at[t] \in Nat /\ Len(Script[job[t]]) \in Nat
  BY CallType DEF Advance
<1>3. ASSUME NEW u \in Threads
      PROVE  InScript(u)'
  <2>1. CASE u = t /\ more
    BY <1>1, <1>2 DEF InScript
  <2>2. CASE u # t \/ ~more
    BY <1>1, <1>2 DEF InScript
  <2>3. QED
    BY <2>1, <2>2
<1>4. at' \in [Threads -> Nat]
  BY <1>2
<1>5. QED
  BY <1>1, <1>3, <1>4

\* The one answer posted is for the command that was asked.
LEMMA PostIs ==
  ASSUME IInv, asked # NoThread, NEW exit \in Exits, NEW output \in Outputs,
         Post(exit, output), UNCHANGED <<callers, running, last>>
  PROVE  /\ posted' \in SUBSET Answers /\ asked' = NoThread
         /\ lock \in Threads /\ running /\ asked = lock
         /\ \A a \in posted' : a.exit = exit /\ a.output = output
         /\ LockInv' /\ AnswerInv' /\ OwnAnswer' /\ Answered'
<1>1. posted = {} /\ running /\ asked = lock /\ lock \in Threads
  BY DEF IInv, AnswerInv
<1> DEFINE ans == [to |-> asked, call |-> at[asked], exit |-> exit, output |-> output]
<1>2. posted' = {ans} /\ asked' = NoThread
  BY <1>1 DEF Post
<1>3. ans \in Answers /\ ans.to = lock /\ ans.call = at[lock]
      /\ ans.exit = exit /\ ans.output = output
  BY <1>1 DEF Answers, IInv, TypeOK
<1> HIDE DEF ans
<1>4. LockInv'
  BY DEF IInv, LockInv, CallOf, callers
<1>5. AnswerInv'
  BY <1>1, <1>2, <1>3 DEF AnswerInv, callers
<1>6. OwnAnswer' /\ Answered'
  BY <1>1, <1>2 DEF OwnAnswer, Answered, Wakes
<1>7. QED
  BY <1>1, <1>2, <1>3, <1>4, <1>5, <1>6

\* A thread that begins a job has the call of startShell before it.
LEMMA BeginIInv ==
  ASSUME IInv, NEW t \in Threads, NEW j \in Jobs, Begin(t, j)
  PROVE  IInv'
<1> USE DEF IInv
<1>1. TypeOK'
  BY ScriptFacts DEF Begin, TypeOK, InScript
<1>2. LockInv' /\ AnswerInv'
  BY DEF Begin, LockInv, AnswerInv, CallOf
<1>3. OwnAnswer' /\ Answered'
  BY DEF Begin, Wakes, OwnAnswer, Answered
<1>4. CauseInv'
  BY ScriptFacts DEF Begin, TypeOK, CallOf, CauseInv, Ready, Said
<1>5. QED
  BY <1>1, <1>2, <1>3, <1>4

\* A thread that finds the shell alive is ready for its next call.
LEMMA FindShellIInv ==
  ASSUME IInv, NEW t \in Threads, FindShell(t)
  PROVE  IInv'
<1> USE DEF IInv
<1>1. TypeOK'
  <2>1. Advance(t, TRUE)
    BY DEF FindShell
  <2>2. QED
    BY AdvanceType DEF TypeOK, FindShell, KeepShell
<1>2. LockInv' /\ AnswerInv'
  BY ThreadAssumption DEF FindShell, Enters, Advance, KeepShell, LockInv, AnswerInv
<1>3. OwnAnswer' /\ Answered'
  BY DEF FindShell, Advance, KeepShell, TypeOK, Wakes, OwnAnswer, Answered
<1>4. CauseInv'
  BY ThreadAssumption DEF FindShell, Enters, Advance, KeepShell, LockInv, CauseInv
<1>5. QED
  BY <1>1, <1>2, <1>3, <1>4

\* A shell is opened only when no thread counts on one, or one has died.
LEMMA OpenShellIInv ==
  ASSUME IInv, NEW t \in Threads, OpenShell(t)
  PROVE  IInv'
<1> USE DEF IInv
<1>1. TypeOK'
  BY DEF OpenShell, TypeOK, InScript
<1>2. LockInv' /\ AnswerInv'
  BY ThreadAssumption DEF OpenShell, Enters, TypeOK, LockInv, AnswerInv, CallOf
<1>3. OwnAnswer' /\ Answered'
  BY ThreadAssumption DEF OpenShell, Wakes, OwnAnswer, Answered
<1>4. CauseInv'
  BY DEF OpenShell, CallOf, CauseInv, Ready, Said
<1>5. QED
  BY <1>1, <1>2, <1>3, <1>4

\* The same when there is no su.
LEMMA OpenFailsIInv ==
  ASSUME IInv, NEW t \in Threads, OpenFails(t)
  PROVE  IInv'
<1> USE DEF IInv
<1>1. TypeOK'
  BY DEF OpenFails, TypeOK, InScript, Answers, Exits, Outputs
<1>2. LockInv' /\ AnswerInv'
  BY ThreadAssumption DEF OpenFails, Enters, TypeOK, LockInv, AnswerInv, CallOf
<1>3. OwnAnswer' /\ Answered'
  BY ThreadAssumption DEF OpenFails, Enters, LockInv, Wakes, OwnAnswer, Answered
<1>4. CauseInv'
  BY DEF OpenFails, LockInv, CallOf, CauseInv, Ready
<1>5. QED
  BY <1>1, <1>2, <1>3, <1>4

\* The answer of the new shell decides whether it is kept.
LEMMA OpenReturnsIInv ==
  ASSUME IInv, NEW t \in Threads, OpenReturns(t)
  PROVE  IInv'
<1> USE DEF IInv
<1>1. TypeOK'
  <2>1. Advance(t, last.exit = "ok")
    BY DEF OpenReturns
  <2>2. QED
    BY AdvanceType DEF TypeOK, OpenReturns, KeepShell, Dispose
<1>2. LockInv' /\ AnswerInv'
  <2>1. posted' = {} /\ asked' = NoThread /\ ~running'
    BY Quiet DEF OpenReturns, Wakes, KeepShell, Dispose
  <2>2. AnswerInv'
    BY <2>1 DEF AnswerInv
  <2>3. LockInv'
    BY ThreadAssumption DEF OpenReturns, Advance, TypeOK, LockInv, Wakes
  <2>4. QED
    BY <2>2, <2>3
<1>3. OwnAnswer' /\ Answered'
  BY DEF OpenReturns, Advance, TypeOK, Wakes, OwnAnswer, Answered
<1>4. CauseInv'
  BY DEF OpenReturns, Advance, KeepShell, CallOf, Wakes, OwnAnswer, CauseInv, Ready
<1>5. QED
  BY <1>1, <1>2, <1>3, <1>4

\* An execute without a shell comes after a death or a hang.
LEMMA ExecuteWithoutShellIInv ==
  ASSUME IInv, NEW t \in Threads, ExecuteWithoutShell(t)
  PROVE  IInv'
<1> USE DEF IInv
<1>1. TypeOK'
  BY DEF ExecuteWithoutShell, Crash, Dispose, TypeOK, InScript
<1>2. LockInv' /\ AnswerInv'
  BY ThreadAssumption DEF ExecuteWithoutShell, Crash, Dispose, LockInv, AnswerInv
<1>3. OwnAnswer' /\ Answered'
  BY DEF ExecuteWithoutShell, Crash, Wakes, OwnAnswer, Answered
<1>4. CauseInv'
  BY DEF ExecuteWithoutShell, Executes, Enters, Crash, CauseInv, Ready
<1>5. QED
  BY <1>1, <1>2, <1>3, <1>4

\* A command is posted, or answered at once by a shell that is gone.
LEMMA ExecuteIInv ==
  ASSUME IInv, NEW t \in Threads, Execute(t)
  PROVE  IInv'
<1> USE DEF IInv
<1>1. TypeOK'
  <2>1. CASE shell = "alive"
    BY <2>1 DEF Execute, Command, TypeOK, InScript
  <2>2. CASE shell # "alive"
    <3>1. [to |-> t, call |-> at[t], exit |-> "died", output |-> "null"] \in Answers
      BY CallType DEF Answers, Exits, Outputs
    <3>2. posted' \in SUBSET Answers
      BY <3>1 DEF Execute, Command, TypeOK
    <3>3. QED
      BY <3>2 DEF Execute, Command, TypeOK, InScript
  <2>3. QED
    BY <2>1, <2>2
<1>2. LockInv' /\ AnswerInv'
  <2>1. ~running /\ asked = NoThread /\ posted = {}
    BY Quiet DEF Execute, Executes, Enters
  <2>2. LockInv'
    <3>1. \A u \in Threads : pc[u] \notin {"opening", "waiting"}
      BY ThreadAssumption DEF Execute, Executes, Enters, LockInv
    <3>2. pc' = [pc EXCEPT ![t] = "waiting"] /\ lock' = t /\ UNCHANGED <<job, at>>
      BY DEF Execute
    <3>3. CallOf(t) # "start" /\ pc \in [Threads -> {"idle", "next", "opening", "waiting"}]
      BY DEF Execute, Executes, Enters, TypeOK
    <3>4. QED
      BY <3>1, <3>2, <3>3 DEF LockInv, CallOf
  <2>3. AnswerInv'
    <3>1. CASE shell = "alive"
      BY <2>1 DEF Execute, Command, AnswerInv
    <3>2. CASE shell # "alive"
      <4>1. posted' = {[to |-> t, call |-> at[t], exit |-> "died", output |-> "null"]}
        BY <2>1, <3>2 DEF Execute, Command
      <4>2. QED
        BY <2>1, <3>2 DEF Execute, Command, AnswerInv
    <3>3. QED
      BY <3>1, <3>2
  <2>4. QED
    BY <2>2, <2>3
<1>3. OwnAnswer' /\ Answered'
  <2>1. running' /\ (asked' = t \/ posted' # {})
    BY DEF Execute, Command
  <2>2. QED
    BY <2>1, ThreadAssumption DEF OwnAnswer, Answered, Wakes
<1>4. CauseInv'
  BY ThreadAssumption DEF Execute, Executes, Enters, Command, AnswerInv, CauseInv, Ready
<1>5. QED
  BY <1>1, <1>2, <1>3, <1>4

\* A thread leaves execute with its answer.
LEMMA RunReturnsIInv ==
  ASSUME IInv, NEW t \in Threads, RunReturns(t)
  PROVE  IInv'
<1> USE DEF IInv
<1>1. TypeOK'
  <2>1. Advance(t, TRUE)
    BY DEF RunReturns
  <2>2. QED
    BY AdvanceType DEF TypeOK, RunReturns, KeepShell, Dispose
<1>2. LockInv' /\ AnswerInv'
  BY ThreadAssumption
     DEF RunReturns, Advance, KeepShell, Dispose, TypeOK, LockInv, AnswerInv, Wakes
<1>3. OwnAnswer' /\ Answered'
  BY DEF RunReturns, Advance, TypeOK, Wakes, OwnAnswer, Answered
<1>4. CauseInv'
  BY DEF RunReturns, Advance, KeepShell, Lost, TypeOK, Wakes, OwnAnswer, CauseInv, Ready
<1>5. QED
  BY <1>1, <1>2, <1>3, <1>4

\* The same, when the output is used.
LEMMA AskReturnsIInv ==
  ASSUME IInv, NEW t \in Threads, AskReturns(t)
  PROVE  IInv'
<1> USE DEF IInv
<1>1. TypeOK'
  <2>1. Advance(t, last.output = "found")
    BY DEF AskReturns
  <2>2. QED
    BY AdvanceType DEF TypeOK, AskReturns, KeepShell, Dispose
<1>2. LockInv' /\ AnswerInv'
  BY ThreadAssumption
     DEF AskReturns, Advance, KeepShell, Dispose, TypeOK, LockInv, AnswerInv, Wakes
<1>3. OwnAnswer' /\ Answered'
  BY DEF AskReturns, Advance, TypeOK, Wakes, OwnAnswer, Answered
<1>4. CauseInv'
  BY DEF AskReturns, Advance, KeepShell, Lost, TypeOK, Wakes, OwnAnswer, CauseInv, Ready
<1>5. QED
  BY <1>1, <1>2, <1>3, <1>4

\* An answer without an output comes after a death or a hang.
LEMMA AskThrowsIInv ==
  ASSUME IInv, NEW t \in Threads, AskThrows(t)
  PROVE  IInv'
<1> USE DEF IInv
<1>1. TypeOK'
  BY DEF AskThrows, Crash, Dispose, TypeOK, InScript
<1>2. LockInv' /\ AnswerInv'
  <2>1. /\ posted' = {} /\ asked' = NoThread /\ ~running' /\ lock' = NoThread
        /\ pc' = [u \in Threads |-> "idle"]
    BY DEF AskThrows, Crash, Dispose
  <2>2. QED
    BY <2>1, ThreadAssumption DEF LockInv, AnswerInv
<1>3. OwnAnswer' /\ Answered'
  BY DEF AskThrows, Crash, Wakes, OwnAnswer, Answered
<1>4. CauseInv'
  BY DEF AskThrows, Crash, Wakes, CauseInv, Said
<1>5. QED
  BY <1>1, <1>2, <1>3, <1>4

\* The shell answers the one command there is.
LEMMA ShellAnswersIInv ==
  ASSUME IInv, ShellAnswers
  PROVE  IInv'
<1> USE DEF IInv
<1>1. PICK exit \in Exits, output \in Outputs :
        /\ Post(exit, output) /\ UNCHANGED <<callers, running, last>>
        /\ asked # NoThread /\ shell = "alive" /\ UNCHANGED <<shell, crash, faults>>
        /\ output \in Said(asked)
        /\ pc[asked] # "opening" => exit = "ok"
  BY DEF ShellAnswers, Said, Exits, Outputs
<1>2. /\ posted' \in SUBSET Answers /\ asked' = NoThread
      /\ lock \in Threads /\ running /\ asked = lock
      /\ \A a \in posted' : a.exit = exit /\ a.output = output
      /\ LockInv' /\ AnswerInv' /\ OwnAnswer' /\ Answered'
  BY <1>1, PostIs
<1>3. TypeOK'
  BY <1>1, <1>2 DEF TypeOK, InScript, callers
<1>4. CauseInv'
  BY <1>1, <1>2 DEF CauseInv, LockInv, Ready, Said, CallOf, callers
<1>5. QED
  BY <1>2, <1>3, <1>4

\* A death is counted.
LEMMA ShellDiesIInv ==
  ASSUME IInv, ShellDies
  PROVE  IInv'
<1> USE DEF IInv
<1>1. TypeOK'
  BY BoundAssumption DEF ShellDies, Fault, callers, TypeOK, InScript
<1>2. LockInv' /\ AnswerInv'
  BY DEF ShellDies, callers, LockInv, AnswerInv, CallOf
<1>3. OwnAnswer' /\ Answered'
  BY DEF ShellDies, callers, Wakes, OwnAnswer, Answered
<1>4. CauseInv'
  <2>1. faults \in Nat /\ faults' = faults + 1
    BY DEF ShellDies, Fault, TypeOK
  <2>2. QED
    BY <2>1 DEF CauseInv
<1>5. QED
  BY <1>1, <1>2, <1>3, <1>4

\* The watchdog answers for a shell that is gone.
LEMMA WatchdogFindsDeadIInv ==
  ASSUME IInv, WatchdogFindsDead
  PROVE  IInv'
<1> USE DEF IInv
<1>1. PICK exit \in Exits, output \in Outputs :
        /\ Post(exit, output) /\ UNCHANGED <<callers, running, last>>
        /\ asked # NoThread /\ shell = "dead" /\ UNCHANGED <<shell, crash, faults>>
  BY DEF WatchdogFindsDead, Said, Exits, Outputs
<1>2. /\ posted' \in SUBSET Answers /\ asked' = NoThread
      /\ lock \in Threads /\ running /\ asked = lock
      /\ \A a \in posted' : a.exit = exit /\ a.output = output
      /\ LockInv' /\ AnswerInv' /\ OwnAnswer' /\ Answered'
  BY <1>1, PostIs
<1>3. TypeOK'
  BY <1>1, <1>2 DEF TypeOK, InScript, callers
<1>4. CauseInv'
  BY <1>1, <1>2 DEF CauseInv, Ready, LockInv
<1>5. QED
  BY <1>2, <1>3, <1>4

\* The watchdog answers for a shell that hangs.
LEMMA WatchdogExpiresIInv ==
  ASSUME IInv, WatchdogExpires
  PROVE  IInv'
<1> USE DEF IInv
<1>1. PICK exit \in Exits, output \in Outputs :
        /\ Post(exit, output) /\ UNCHANGED <<callers, running, last>>
        /\ asked # NoThread /\ shell' = "dead" /\ UNCHANGED crash
        /\ faults < MaxFaults /\ faults' = faults + 1
  BY DEF WatchdogExpires, Said, Exits, Outputs, Fault
<1>2. /\ posted' \in SUBSET Answers /\ asked' = NoThread
      /\ lock \in Threads /\ running /\ asked = lock
      /\ \A a \in posted' : a.exit = exit /\ a.output = output
      /\ LockInv' /\ AnswerInv' /\ OwnAnswer' /\ Answered'
  BY <1>1, PostIs
<1>3. TypeOK'
  BY <1>1, <1>2, BoundAssumption DEF TypeOK, InScript, callers
<1>4. CauseInv'
  BY <1>1 DEF CauseInv, TypeOK
<1>5. QED
  BY <1>2, <1>3, <1>4

\* The one answer there is wakes its caller.
LEMMA DeliverIInv ==
  ASSUME IInv, Deliver
  PROVE  IInv'
<1> USE DEF IInv
<1>1. PICK a \in posted :
        /\ posted' = posted \ {a} /\ last' = a /\ ~running' /\ running' = FALSE
        /\ UNCHANGED <<callers, shell, asked, crash, faults>>
  BY DEF Deliver
<1>2. /\ a.to = lock /\ a.call = at[lock] /\ asked = NoThread /\ posted = {a}
  BY <1>1 DEF AnswerInv
<1>3. posted' = {}
  BY <1>1, <1>2
<1>4. TypeOK'
  BY <1>1 DEF TypeOK, InScript, callers
<1>5. LockInv' /\ AnswerInv'
  BY <1>1 DEF LockInv, AnswerInv, CallOf, callers
<1>6. OwnAnswer' /\ Answered'
  BY <1>1, <1>2 DEF OwnAnswer, Answered, Wakes, LockInv, callers
<1>7. CauseInv'
  BY <1>1 DEF CauseInv, Ready, Said, CallOf, AnswerInv, callers
<1>8. QED
  BY <1>4, <1>5, <1>6, <1>7

\* A new application has what Init has, but for the faults.
LEMMA RestartIInv ==
  ASSUME IInv, Restart
  PROVE  IInv'
<1> USE DEF IInv
<1>1. TypeOK'
  BY DEF Restart, callers, callers, TypeOK, InScript
<1>2. LockInv' /\ AnswerInv'
  BY DEF Restart, callers, callers, LockInv, AnswerInv, CallOf
<1>3. OwnAnswer' /\ Answered'
  BY DEF Restart, callers, callers, Wakes, OwnAnswer, Answered
<1>4. CauseInv'
  BY DEF Restart, CauseInv
<1>5. QED
  BY <1>1, <1>2, <1>3, <1>4

\* Every step keeps the inductive invariant.
LEMMA StepIInv == IInv /\ [Next]_vars => IInv'
<1> SUFFICES ASSUME IInv, [Next]_vars
             PROVE  IInv'
  OBVIOUS
<1>1. ASSUME NEW t \in Threads, NEW j \in Jobs, Begin(t, j)
      PROVE  IInv'
  BY <1>1, BeginIInv
<1>2. ASSUME NEW t \in Threads, Starts(t)
      PROVE  IInv'
  BY <1>2, FindShellIInv, OpenShellIInv, OpenFailsIInv, OpenReturnsIInv DEF Starts
<1>3. ASSUME NEW t \in Threads, Runs(t)
      PROVE  IInv'
  BY <1>3, ExecuteWithoutShellIInv, ExecuteIInv, RunReturnsIInv, AskReturnsIInv,
     AskThrowsIInv
     DEF Runs
<1>4. CASE Answer
  BY <1>4, ShellAnswersIInv, WatchdogFindsDeadIInv, WatchdogExpiresIInv DEF Answer
<1>5. CASE Deliver
  BY <1>5, DeliverIInv
<1>6. CASE ShellDies
  BY <1>6, ShellDiesIInv
<1>7. CASE Restart
  BY <1>7, RestartIInv
<1>8. CASE UNCHANGED vars
  BY <1>8
     DEF vars, callers, IInv, TypeOK, InScript, LockInv, AnswerInv, OwnAnswer,
         Answered, CauseInv, Ready, Wakes, CallOf, Said
<1>9. QED
  BY <1>1, <1>2, <1>3, <1>4, <1>5, <1>6, <1>7, <1>8 DEF Next

\* The inductive invariant holds in every reachable state.
THEOREM Invariance == Spec => []IInv
<1>1. QED
  BY InitIInv, StepIInv, PTL DEF Spec

\* Every variable keeps its type, and every thread its place in the script.
THEOREM TypeCorrect == Spec => []TypeOK
<1>1. IInv => TypeOK
  BY DEF IInv
<1>2. QED
  BY <1>1, Invariance, PTL

\* A caller reads the answer to its own call.
THEOREM AnswersAreOwn == Spec => []OwnAnswer
<1>1. IInv => OwnAnswer
  BY DEF IInv
<1>2. QED
  BY <1>1, Invariance, PTL

\* Whoever waits has a command in the shell or an answer under way.
THEOREM NoLostAnswer == Spec => []Answered
<1>1. IInv => Answered
  BY DEF IInv
<1>2. QED
  BY <1>1, Invariance, PTL

\* Without a death or a hang of the shell no exception ends the application.
THEOREM NoCrashWithoutCause == Spec => []CrashHasCause
<1>1. IInv => CrashHasCause
  <2>1. IInv => faults \in Nat
    BY BoundAssumption DEF IInv, TypeOK
  <2>2. QED
    BY <2>1 DEF IInv, CauseInv, CrashHasCause
<1>2. QED
  BY <1>1, Invariance, PTL

----------------------------------------------------------------------------
(* Nobody is stuck.  The provers do not look into ENABLED, so that it is   *)
(* proved that where NeverStuck asks for an action the conditions of a     *)
(* disjunct of it hold; that it is then enabled, GuardsSuffice, is the     *)
(* meaning of ENABLED: each of them changes a variable and gives a value   *)
(* to every other.                                                         *)

\* The conditions of ShellAnswers and of WatchdogFindsDead.
CanAnswer == asked # NoThread /\ shell \in {"alive", "dead"}

\* The condition of Deliver.
CanDeliver == posted # {}

\* The conditions of OpenReturns, RunReturns, AskReturns and AskThrows.
CanReturn(t) ==
  \/ Wakes(t, "opening")
  \/ Wakes(t, "waiting") /\ CallOf(t) = "run"
  \/ Wakes(t, "waiting") /\ CallOf(t) = "ask" /\ last.output \in {"missing", "found"}
  \/ Wakes(t, "waiting") /\ CallOf(t) = "ask" /\ last.output \in {"null", "empty"}

GuardsSuffice ==
  /\ CanAnswer => ENABLED <<Answer>>_vars
  /\ CanDeliver => ENABLED <<Deliver>>_vars
  /\ \A t \in Threads : CanReturn(t) => ENABLED <<Returns(t)>>_vars

\* Nobody asks a shell that was disposed of.
AskedInv == asked # NoThread => shell # "none"

LEMMA AskedStep == IInv /\ AskedInv /\ [Next]_vars => AskedInv'
<1> SUFFICES ASSUME IInv, AskedInv, [Next]_vars
             PROVE  AskedInv'
  OBVIOUS
<1> USE DEF AskedInv
<1>1. Dispose => AskedInv'
  BY DEF Dispose
<1>2. KeepShell => AskedInv'
  BY DEF KeepShell
<1>3. ASSUME NEW t \in Threads, NEW j \in Jobs, Begin(t, j)
      PROVE  AskedInv'
  BY <1>3 DEF Begin
<1>4. ASSUME NEW t \in Threads, Starts(t)
      PROVE  AskedInv'
  BY <1>1, <1>2, <1>4 DEF Starts, FindShell, OpenShell, OpenFails, OpenReturns
<1>5. ASSUME NEW t \in Threads, Runs(t)
      PROVE  AskedInv'
  BY <1>1, <1>2, <1>5
     DEF Runs, ExecuteWithoutShell, Execute, Command, RunReturns, AskReturns, AskThrows, Crash
<1>6. CASE Answer \/ Deliver \/ ShellDies \/ Restart \/ UNCHANGED vars
  BY <1>6 DEF Answer, ShellAnswers, WatchdogFindsDead, WatchdogExpires, Post, Deliver,
              ShellDies, Restart, vars
<1>7. QED
  BY <1>3, <1>4, <1>5, <1>6 DEF Next

\* A command in the shell can be answered, what was posted can be handed over, and who was
\* woken can return or throw, whatever the answer was (RootUtil.java:49-59, 115-127).
THEOREM NobodyIsStuck == Spec /\ []GuardsSuffice => []NeverStuck
<1>1. Spec => []AskedInv
  <2>1. Init => AskedInv
    BY DEF Init, AskedInv
  <2>2. QED
    BY <2>1, AskedStep, Invariance, PTL DEF Spec
<1>2. IInv /\ AskedInv /\ GuardsSuffice => NeverStuck
  <2> SUFFICES ASSUME IInv, AskedInv, GuardsSuffice
               PROVE  NeverStuck
    OBVIOUS
  <2>1. asked # NoThread => CanAnswer
    BY DEF AskedInv, CanAnswer, IInv, TypeOK
  <2>2. posted # {} => CanDeliver
    BY DEF CanDeliver
  <2>3. ASSUME NEW t \in Threads, lock = t, ~running
        PROVE  CanReturn(t)
    <3>1. Wakes(t, "opening") \/ (Wakes(t, "waiting") /\ CallOf(t) # "start")
      BY <2>3 DEF IInv, LockInv, Wakes
    <3>2. CallOf(t) \in {"start", "ask", "run"}
      BY CallType DEF IInv, Calls
    <3>3. last.output \in {"null", "empty", "missing", "found"}
      BY DEF IInv, TypeOK, Answers, Outputs, Nothing
    <3>4. QED
      BY <3>1, <3>2, <3>3 DEF CanReturn
  <2>4. QED
    BY <2>1, <2>2, <2>3 DEF GuardsSuffice, NeverStuck
<1>3. QED
  BY <1>1, <1>2, Invariance, PTL

----------------------------------------------------------------------------
(* Whoever is in the monitor leaves it: the command is in the shell, then  *)
(* its answer under way, then the thread is woken.                         *)

InShell(t) == lock = t /\ asked # NoThread
UnderWay(t) == lock = t /\ posted # {}
Woken(t) == lock = t /\ ~running

\* The owner of the monitor is in one of the three situations.
LEMMA OwnerSituations ==
  ASSUME IInv, NEW t \in Threads, lock = t
  PROVE  InShell(t) \/ UnderWay(t) \/ Woken(t)
BY DEF IInv, Answered, InShell, UnderWay, Woken

\* Nobody starts a call while another thread is in the monitor, and its owner goes
\* on only when it was woken.
LEMMA OwnerAlone ==
  ASSUME IInv, NEW t \in Threads, lock = t, [Next]_vars
  PROVE  \/ UNCHANGED <<lock, running, asked, posted>>
         \/ Answer \/ Deliver
         \/ Woken(t) /\ Returns(t)
<1>0. t # NoThread
  BY ThreadAssumption
<1>1. ASSUME NEW u \in Threads, NEW j \in Jobs, Begin(u, j)
      PROVE  UNCHANGED <<lock, running, asked, posted>>
  BY <1>1 DEF Begin
<1>2. ASSUME NEW u \in Threads, Starts(u)
      PROVE  Woken(t) /\ Returns(t)
  <2>1. OpenReturns(u)
    BY <1>0, <1>2 DEF Starts, FindShell, OpenShell, OpenFails, Enters
  <2>2. u = t /\ ~running
    BY <2>1 DEF OpenReturns, Wakes, IInv, LockInv
  <2>3. QED
    BY <2>1, <2>2 DEF Returns, Woken
<1>3. ASSUME NEW u \in Threads, Runs(u)
      PROVE  Woken(t) /\ Returns(t)
  <2>1. RunReturns(u) \/ AskReturns(u) \/ AskThrows(u)
    BY <1>0, <1>3 DEF Runs, ExecuteWithoutShell, Execute, Executes, Enters
  <2>2. u = t /\ ~running
    BY <2>1 DEF RunReturns, AskReturns, AskThrows, Wakes, IInv, LockInv
  <2>3. QED
    BY <2>1, <2>2 DEF Returns, Woken
<1>4. CASE ShellDies \/ Restart \/ UNCHANGED vars
  BY <1>4 DEF ShellDies, Restart, callers, vars
<1>5. QED
  BY <1>1, <1>2, <1>3, <1>4 DEF Next

\* A command stays in the shell until it is answered.
LEMMA CommandAnswered ==
  ASSUME IInv, NEW t \in Threads, InShell(t), [Next]_vars
  PROVE  /\ InShell(t)' \/ UnderWay(t)'
         /\ <<Answer>>_vars => UnderWay(t)'
<1>1. posted = {} /\ running
  BY DEF InShell, IInv, AnswerInv
<1>2. Answer => UnderWay(t)'
  BY DEF Answer, ShellAnswers, WatchdogFindsDead, WatchdogExpires, Post, callers,
         InShell, UnderWay
<1>3. ~Deliver /\ ~Woken(t)
  BY <1>1 DEF Deliver, Woken
<1>4. QED
  BY <1>2, <1>3, OwnerAlone DEF InShell

\* An answer is under way until it is handed over, which wakes the thread.
LEMMA AnswerDelivered ==
  ASSUME IInv, NEW t \in Threads, UnderWay(t), [Next]_vars
  PROVE  /\ UnderWay(t)' \/ Woken(t)'
         /\ <<Deliver>>_vars => Woken(t)'
<1>1. asked = NoThread /\ running
  BY DEF UnderWay, IInv, AnswerInv
<1>2. Deliver => Woken(t)'
  BY DEF Deliver, callers, UnderWay, Woken
<1>3. ~Answer /\ ~Woken(t)
  BY <1>1 DEF Answer, ShellAnswers, WatchdogFindsDead, WatchdogExpires, Woken
<1>4. QED
  BY <1>2, <1>3, OwnerAlone DEF UnderWay

\* A thread that was woken stays so until it returns or throws, and leaves the
\* monitor then.
LEMMA WokenReturns ==
  ASSUME IInv, NEW t \in Threads, Woken(t), [Next]_vars
  PROVE  /\ Woken(t)' \/ lock' # t
         /\ <<Returns(t)>>_vars => lock' # t
<1>0. t # NoThread
  BY ThreadAssumption
<1>1. asked = NoThread /\ posted = {}
  BY Quiet DEF Woken
<1>2. Returns(t) => lock' # t
  BY <1>0 DEF Returns, OpenReturns, RunReturns, AskReturns, AskThrows, Crash
<1>3. ~Answer /\ ~Deliver
  BY <1>1 DEF Answer, ShellAnswers, WatchdogFindsDead, WatchdogExpires, Deliver
<1>4. QED
  BY <1>2, <1>3, OwnerAlone DEF Woken

\* Whoever is in the monitor leaves it; that an action whose conditions hold is enabled
\* is a hypothesis, because the provers do not look into ENABLED.
THEOREM CallsReturn == FairSpec /\ []GuardsSuffice => CallReturns
<1>1. ASSUME NEW t \in Threads
      PROVE  FairSpec /\ []NeverStuck => ((lock = t) ~> (lock # t))
  <2>1. IInv /\ lock = t => InShell(t) \/ UnderWay(t) \/ Woken(t)
    BY OwnerSituations
  <2>2. IInv /\ InShell(t) /\ [Next]_vars => InShell(t)' \/ UnderWay(t)'
    BY CommandAnswered
  <2>3. IInv /\ InShell(t) /\ [Next]_vars /\ <<Answer>>_vars => UnderWay(t)'
    BY CommandAnswered
  <2>4. IInv /\ UnderWay(t) /\ [Next]_vars => UnderWay(t)' \/ Woken(t)'
    BY AnswerDelivered
  <2>5. IInv /\ UnderWay(t) /\ [Next]_vars /\ <<Deliver>>_vars => Woken(t)'
    BY AnswerDelivered
  <2>6. IInv /\ Woken(t) /\ [Next]_vars => Woken(t)' \/ ~(lock = t)'
    BY WokenReturns
  <2>7. IInv /\ Woken(t) /\ [Next]_vars /\ <<Returns(t)>>_vars => ~(lock = t)'
    BY WokenReturns
  <2>8. NeverStuck => /\ InShell(t) => ENABLED <<Answer>>_vars
                      /\ UnderWay(t) => ENABLED <<Deliver>>_vars
                      /\ Woken(t) => ENABLED <<Returns(t)>>_vars
    BY DEF NeverStuck, InShell, UnderWay, Woken
  <2>9. FairSpec => Spec /\ WF_vars(Answer) /\ WF_vars(Deliver) /\ ReturnFairness(t)
    <3>1. (\A u \in Threads : ReturnFairness(u)) => ReturnFairness(t)
      OBVIOUS
    <3>2. QED
      BY <3>1, PTL DEF FairSpec
  <2>10. lock # t <=> ~(lock = t)
    OBVIOUS
  <2>11. QED
    BY <2>1, <2>2, <2>3, <2>4, <2>5, <2>6, <2>7, <2>8, <2>9, <2>10, Invariance, PTL
       DEF Spec, ReturnFairness
<1>2. FairSpec /\ []GuardsSuffice => FairSpec /\ []NeverStuck
  BY NobodyIsStuck, PTL DEF FairSpec
<1>3. FairSpec /\ []NeverStuck => \A t \in Threads : (lock = t) ~> (lock # t)
  BY <1>1
<1>4. QED
  BY <1>2, <1>3 DEF CallReturns

====
