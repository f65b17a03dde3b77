\* Everything may happen: late loads, cut files, no loader, deaths, deletions.
SPECIFICATION Spec
CONSTANTS
  d1 = d1
  d2 = d2
  d3 = d3
  Dex = {d1, d2}
  Keys = {d1, d2}
  NoKey = NoKey
  NoDex = NoDex
  KeyOf <- MCKeyOf
  Ignored = {}
  Resident = {}
  Crashing = {}
  NumSlots = 2
  LateLoads = TRUE
  LoaderOutcomes = {TRUE, FALSE}
  MayTear = TRUE
  MaxFaults = 1
SYMMETRY Symmetric
INVARIANTS
  RecordsIndexed
  BlameIsExact
  LaterSuccessIsDumped
PROPERTY SuccessSticks
