\* The shell dies or hangs twice, at every step.
SPECIFICATION FairSpec
CONSTANTS
  ui = ui
  timer1 = timer1
  timer2 = timer2
  Threads <- MCThreads
  JobsOf <- MCJobsOf
  NoThread = NoThread
  MaxFaults = 2
INVARIANTS
  OwnAnswer
  Answered
  CrashHasCause
  NeverStuck
PROPERTY CallReturns
