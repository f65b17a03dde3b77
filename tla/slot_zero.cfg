\* A dex file loaded late into slot 0.
SPECIFICATION Spec
CONSTANTS
  d1 = d1
  d2 = d2
  d3 = d3
  Dex = {d1, d2}
  Keys = {d1, d2}
  NoKey = NoKey
  NoDex = NoDex
  KeyOf <- MCKeyOf
  Ignored = {}
  Resident = {}
  Crashing = {}
  NumSlots = 2
  LateLoads = TRUE
  LoaderOutcomes = {TRUE}
  MayTear = FALSE
  MaxFaults = 0
INVARIANT SuccessIsDumped
