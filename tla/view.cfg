\* Two packages, and an activity that is made twice.
SPECIFICATION FairSpec
CONSTANTS
  a = a
  b = b
  a1 = a1
  Packages = {a, b}
  NoPackage = NoPackage
  Processes = {a1}
  NoProcess = NoProcess
  PackageOf <- MCPackageOf
  MainProcess <- MCMainProcess
  MaxActivities = 2
  MaxQueue = 2
INVARIANTS
  UpkDumps
  CrashHasCause
  RowsOnce
  RowsRight
PROPERTY ResultsShown
