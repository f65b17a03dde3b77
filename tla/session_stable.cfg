\* The app loads its dex files, one of them ignored, before the thread wakes up.
\* Files may be cut off, so UnpackJob may lose a part of a record that is open.
SPECIFICATION Spec
CONSTANTS
  d1 = d1
  d2 = d2
  d3 = d3
  Dex = {d1, d2, d3}
  Keys = {d1, d2, d3}
  NoKey = NoKey
  NoDex = NoDex
  KeyOf <- MCKeyOf
  Ignored = {d3}
  Resident = {}
  Crashing = {d2}
  NumSlots = 3
  LateLoads = FALSE
  LoaderOutcomes = {TRUE}
  MayTear = TRUE
  MaxFaults = 2
INVARIANTS
  SuccessIsDumped
  NothingLeftWaiting
PROPERTY ImplementsJob
