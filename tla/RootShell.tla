---- MODULE RootShell ----
(***************************************************************************)
(* The root shell of the user interface (RootUtil.java), which the UI      *)
(* thread and the timer share (MainActivity.java).  startShell and execute *)
(* are synchronized, each by itself: between the two another thread can    *)
(* have the monitor, and the shell can be disposed of.                     *)
(*                                                                         *)
(* A call posts a command to the shell, which libsuperuser runs; its       *)
(* answer is posted to the callback thread, whose listener hands it over   *)
(* to the caller, who waits in the monitor.  The shell's process can die   *)
(* at every step, and a command can hang until the watchdog ends it.       *)
(***************************************************************************)
EXTENDS Integers, Sequences

CONSTANTS
  Threads,    \* the UI thread and one timer for each time the activity was made
  NoThread,
  JobsOf,     \* what each thread does
  MaxFaults   \* bound: deaths and hangs of the shell

Jobs == {"UPK", "DEL", "CPY", "Tick"}

ASSUME ThreadAssumption ==
  /\ NoThread \notin Threads
  /\ JobsOf \in [Threads -> SUBSET Jobs]

ASSUME BoundAssumption == MaxFaults \in Nat

\* The calls of a job: startShell, an execute whose output is used, an execute
\* whose answer is not looked at.
Script == [UPK  |-> <<"start", "run", "run">>,
           DEL  |-> <<"start", "run">>,
           CPY  |-> <<"start", "ask", "start", "run", "run", "run">>,
           Tick |-> <<"start", "ask", "start", "run", "run">>]

VARIABLES
  pc,          \* what each thread does
  job, at,     \* its job, and the place of the call it makes or will make
  lock,        \* who has the monitor of the RootUtil
  shell,       \* mShell: null, its process runs, its process is gone
  running,     \* mCommandRunning
  asked,       \* whose command the shell has not answered yet
  posted,      \* answers on their way to the callback thread
  last,        \* mLastExitCode and mLastOutput, and the call they answer
  crash,       \* the exception that ended the application
  faults       \* faults so far

callers == <<pc, job, at, lock>>
vars == <<callers, shell, running, asked, posted, last, crash, faults>>

\* Exit codes; "ok" stands for SHELL_RUNNING and for whatever a command exits
\* with.
Exits == {"ok", "wrong_uid", "exec_failed", "died", "watchdog"}

\* No list; no lines; a line that says "No such file or directory"; another.
Outputs == {"null", "empty", "missing", "found"}

Answers == [to : Threads, call : Nat, exit : Exits, output : Outputs]

Nothing == [to |-> NoThread, call |-> 0, exit |-> "watchdog", output |-> "null"]

\* The place of a thread is one of its script.
InScript(t) == at[t] \in 1 .. Len(Script[job[t]])

TypeOK ==
  /\ pc \in [Threads -> {"idle", "next", "opening", "waiting"}]
  /\ job \in [Threads -> Jobs]
  /\ at \in [Threads -> Nat]
  /\ \A t \in Threads : InScript(t)
  /\ lock \in Threads \cup {NoThread}
  /\ shell \in {"none", "alive", "dead"}
  /\ running \in BOOLEAN
  /\ asked \in Threads \cup {NoThread}
  /\ posted \in SUBSET Answers
  /\ last \in Answers \cup {Nothing}
  /\ crash \in {"none", "not_running", "null_output", "no_output"}
  /\ faults \in 0 .. MaxFaults

Init ==
  /\ pc = [t \in Threads |-> "idle"]
  /\ job = [t \in Threads |-> "Tick"]
  /\ at = [t \in Threads |-> 1]
  /\ lock = NoThread
  /\ shell = "none"
  /\ running = FALSE
  /\ asked = NoThread
  /\ posted = {}
  /\ last = Nothing
  /\ crash = "none"
  /\ faults = 0

----------------------------------------------------------------------------
(* The callers *)

CallOf(t) == Script[job[t]][at[t]]

\* The user clicks a button, or a timer ticks.
Begin(t, j) ==
  /\ crash = "none"
  /\ pc[t] = "idle"
  /\ j \in JobsOf[t]
  /\ pc' = [pc EXCEPT ![t] = "next"]
  /\ job' = [job EXCEPT ![t] = j]
  /\ at' = [at EXCEPT ![t] = 1]
  /\ UNCHANGED <<lock, shell, running, asked, posted, last, crash, faults>>

\* A job goes on with its next call, if there is one, or ends.
Advance(t, goes) ==
  LET more == goes /\ at[t] < Len(Script[job[t]])
  IN  /\ pc' = [pc EXCEPT ![t] = IF more THEN "next" ELSE "idle"]
      /\ at' = [at EXCEPT ![t] = IF more THEN @ + 1 ELSE @]
      /\ UNCHANGED job

\* RootUtil.dispose: the shell is closed; quitting the callback thread drops
\* what was on its way to it.
Dispose == shell' = "none" /\ asked' = NoThread /\ posted' = {}

KeepShell == UNCHANGED <<shell, asked, posted>>

\* An exception nobody catches ends the application, whichever thread it is in.
Crash(why) ==
  /\ crash' = why
  /\ pc' = [t \in Threads |-> "idle"]
  /\ lock' = NoThread
  /\ running' = FALSE
  /\ last' = Nothing
  /\ Dispose
  /\ UNCHANGED <<job, at, faults>>

\* The user starts the application again.
Restart ==
  /\ crash # "none"
  /\ crash' = "none"
  /\ UNCHANGED <<callers, shell, running, asked, posted, last, faults>>

----------------------------------------------------------------------------
(* RootUtil.startShell *)

Enters(t, call) == pc[t] = "next" /\ CallOf(t) = call /\ lock = NoThread

FindShell(t) ==
  /\ Enters(t, "start")
  /\ shell = "alive"
  /\ Advance(t, TRUE)
  /\ KeepShell
  /\ UNCHANGED <<lock, running, last, crash, faults>>

\* A shell that is gone is disposed of, and a new one opened: the first command,
\* which asks for its rights, is on its way.
OpenShell(t) ==
  /\ Enters(t, "start")
  /\ shell # "alive"
  /\ pc' = [pc EXCEPT ![t] = "opening"]
  /\ lock' = t
  /\ running' = TRUE
  /\ shell' = "alive"
  /\ asked' = t
  /\ UNCHANGED <<job, at, posted, last, crash, faults>>

\* Mutant of OpenFails: mCommandRunning is set after the shell was made.
OpenFailsFirst(t) ==
  /\ Enters(t, "start")
  /\ shell # "alive"
  /\ pc' = [pc EXCEPT ![t] = "opening"]
  /\ lock' = t
  /\ running' = TRUE
  /\ shell' = "dead"
  /\ last' = [to |-> t, call |-> at[t], exit |-> "exec_failed", output |-> "null"]
  /\ UNCHANGED <<job, at, asked, posted, crash, faults>>

\* There is no su: the listener is called while the shell is being made.
OpenFails(t) ==
  /\ Enters(t, "start")
  /\ shell # "alive"
  /\ pc' = [pc EXCEPT ![t] = "opening"]
  /\ lock' = t
  /\ running' = FALSE
  /\ shell' = "dead"
  /\ last' = [to |-> t, call |-> at[t], exit |-> "exec_failed", output |-> "null"]
  /\ UNCHANGED <<job, at, asked, posted, crash, faults>>

Wakes(t, point) == pc[t] = point /\ ~running

\* Mutant of OpenReturns: the answer is not looked at.
OpenReturnsTrue(t) ==
  /\ Wakes(t, "opening")
  /\ lock' = NoThread
  /\ IF last.exit = "ok" THEN KeepShell ELSE Dispose
  /\ Advance(t, TRUE)
  /\ UNCHANGED <<running, last, crash, faults>>

\* Mutant of OpenReturns: who was woken waits for a shell that lives.
OpenReturnsAlive(t) ==
  /\ Wakes(t, "opening")
  /\ shell = "alive"
  /\ lock' = NoThread
  /\ IF last.exit = "ok" THEN KeepShell ELSE Dispose
  /\ Advance(t, last.exit = "ok")
  /\ UNCHANGED <<running, last, crash, faults>>

OpenReturns(t) ==
  /\ Wakes(t, "opening")
  /\ lock' = NoThread
  /\ IF last.exit = "ok" THEN KeepShell ELSE Dispose
  /\ Advance(t, last.exit = "ok")
  /\ UNCHANGED <<running, last, crash, faults>>

----------------------------------------------------------------------------
(* RootUtil.execute *)

Executes(t) == Enters(t, "ask") \/ Enters(t, "run")

\* "shell is not running"
ExecuteWithoutShell(t) ==
  /\ Executes(t)
  /\ shell = "none"
  /\ Crash("not_running")

\* A shell that is gone answers at once, without an output.
Command(t) ==
  IF shell = "alive"
  THEN asked' = t /\ UNCHANGED posted
  ELSE /\ posted' = posted \cup
            {[to |-> t, call |-> at[t], exit |-> "died", output |-> "null"]}
       /\ UNCHANGED asked

\* Mutant of Execute: execute is not synchronized.
ExecuteUnlocked(t) ==
  /\ pc[t] = "next"
  /\ CallOf(t) # "start"
  /\ shell # "none"
  /\ pc' = [pc EXCEPT ![t] = "waiting"]
  /\ running' = TRUE
  /\ Command(t)
  /\ UNCHANGED <<job, at, lock, shell, last, crash, faults>>

Execute(t) ==
  /\ Executes(t)
  /\ shell # "none"
  /\ pc' = [pc EXCEPT ![t] = "waiting"]
  /\ lock' = t
  /\ running' = TRUE
  /\ Command(t)
  /\ UNCHANGED <<job, at, shell, last, crash, faults>>

\* waitForCommandFinished disposes of a shell that died or hung.
Lost == last.exit \in {"died", "watchdog"}

\* Nobody looks at the answer: the job goes on.
RunReturns(t) ==
  /\ Wakes(t, "waiting")
  /\ CallOf(t) = "run"
  /\ lock' = NoThread
  /\ IF Lost THEN Dispose ELSE KeepShell
  /\ Advance(t, TRUE)
  /\ UNCHANGED <<running, last, crash, faults>>

\* output.addAll(mLastOutput), then output.get(0) in isUnpackConfigExit.
AskReturns(t) ==
  /\ Wakes(t, "waiting")
  /\ CallOf(t) = "ask"
  /\ last.output \in {"missing", "found"}
  /\ lock' = NoThread
  /\ IF Lost THEN Dispose ELSE KeepShell
  /\ Advance(t, last.output = "found")
  /\ UNCHANGED <<running, last, crash, faults>>

AskThrows(t) ==
  /\ Wakes(t, "waiting")
  /\ CallOf(t) = "ask"
  /\ \/ last.output = "null" /\ Crash("null_output")
     \/ last.output = "empty" /\ Crash("no_output")

----------------------------------------------------------------------------
(* The shell and the callback thread *)

\* What a command may have said; ls always says something.
Said(t) == IF CallOf(t) = "ask" THEN {"missing", "found"} ELSE {"empty"}

Post(exit, output) ==
  /\ posted' = posted \cup
       {[to |-> asked, call |-> at[asked], exit |-> exit, output |-> output]}
  /\ asked' = NoThread

ShellAnswers ==
  /\ asked # NoThread
  /\ shell = "alive"
  /\ \E exit \in {"ok"} \cup (IF pc[asked] = "opening" THEN {"wrong_uid"} ELSE {}) :
       \E output \in Said(asked) : Post(exit, output)
  /\ UNCHANGED <<callers, shell, running, last, crash, faults>>

Fault == faults < MaxFaults /\ faults' = faults + 1

ShellDies ==
  /\ shell = "alive"
  /\ shell' = "dead"
  /\ Fault
  /\ UNCHANGED <<callers, running, asked, posted, last, crash>>

\* The watchdog looks every second whether the shell is still there: what was
\* read of the answer so far is all of it.
WatchdogFindsDead ==
  /\ asked # NoThread
  /\ shell = "dead"
  /\ \E output \in {"empty"} \cup Said(asked) : Post("died", output)
  /\ UNCHANGED <<callers, shell, running, last, crash, faults>>

\* The shell has been silent for too long and is killed.
WatchdogExpires ==
  /\ asked # NoThread
  /\ shell = "alive"
  /\ \E output \in {"empty"} \cup Said(asked) : Post("watchdog", output)
  /\ shell' = "dead"
  /\ Fault
  /\ UNCHANGED <<callers, running, last, crash>>

\* Mutant of Deliver: only an answer of the command itself wakes the caller.
DeliverGood ==
  \E answer \in posted :
    /\ posted' = posted \ {answer}
    /\ last' = answer
    /\ running' = (answer.exit # "ok")
    /\ UNCHANGED <<callers, shell, asked, crash, faults>>

\* commandResultListener
Deliver ==
  \E answer \in posted :
    /\ posted' = posted \ {answer}
    /\ last' = answer
    /\ running' = FALSE
    /\ UNCHANGED <<callers, shell, asked, crash, faults>>

----------------------------------------------------------------------------
(* The specification *)

Starts(t) == FindShell(t) \/ OpenShell(t) \/ OpenFails(t) \/ OpenReturns(t)

Runs(t) ==
  \/ ExecuteWithoutShell(t) \/ Execute(t)
  \/ RunReturns(t) \/ AskReturns(t) \/ AskThrows(t)

Answer == ShellAnswers \/ WatchdogFindsDead \/ WatchdogExpires

Next ==
  \/ \E t \in Threads : (\E j \in Jobs : Begin(t, j)) \/ Starts(t) \/ Runs(t)
  \/ Answer \/ Deliver \/ ShellDies \/ Restart

Spec == Init /\ [][Next]_vars

\* A thread that was woken gets out of the monitor.
Returns(t) == OpenReturns(t) \/ RunReturns(t) \/ AskReturns(t) \/ AskThrows(t)

ReturnFairness(t) == WF_vars(Returns(t))

\* Threads that are not blocked run; a command is answered by the shell or ended
\* by the watchdog.  Who gets the monitor is left open.
FairSpec ==
  /\ Spec
  /\ WF_vars(Answer)
  /\ WF_vars(Deliver)
  /\ \A u \in Threads : ReturnFairness(u)

----------------------------------------------------------------------------
(* Properties *)

\* A caller that stops waiting reads the answer to the call it made, never that
\* of another thread or of a call before (RootUtil.java:35-59, 115-127: two
\* fields for all).
OwnAnswer ==
  \A t \in Threads :
    Wakes(t, "opening") \/ Wakes(t, "waiting") => last.to = t /\ last.call = at[t]

\* Nobody waits for an answer that will not come: the command is in the shell or
\* its answer under way (RootUtil.java:49-53 waits without a time limit).
Answered == running => asked # NoThread \/ posted # {}

\* As long as the shell neither dies nor hangs the application does not crash,
\* whatever the threads do between startShell and execute, also when root is
\* refused (RootUtil.java:88-91, 116).
CrashHasCause == crash # "none" => faults > 0

\* Nobody is stuck: a command can be answered whatever became of the shell, an
\* answer that was posted can be handed over, and who was woken can return or
\* throw, whatever the answer was (RootUtil.java:49-59, 82-91, 115-127).
NeverStuck ==
  /\ asked # NoThread => ENABLED <<Answer>>_vars
  /\ posted # {} => ENABLED <<Deliver>>_vars
  /\ \A t \in Threads : lock = t /\ ~running => ENABLED <<Returns(t)>>_vars

\* Whoever is in the monitor leaves it.
CallReturns == \A t \in Threads : (lock = t) ~> (lock # t)

====
