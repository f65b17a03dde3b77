\* The app always loads two dex files, one of which kills its process, and now and then
\* a third.  A file may be cut off: then, and when the third does not come again, an
\* entry can wait for ever.
SPECIFICATION FairSpec
CONSTANTS
  d1 = d1
  d2 = d2
  d3 = d3
  Dex = {d1, d2, d3}
  Keys = {d1, d2, d3}
  NoKey = NoKey
  NoDex = NoDex
  KeyOf <- MCKeyOf
  Ignored = {}
  Resident = {d1, d2}
  Crashing = {d2}
  NumSlots = 3
  LateLoads = FALSE
  LoaderOutcomes = {TRUE}
  MayTear = TRUE
  MaxFaults = 1
PROPERTIES
  GoodDexUnpacked
  FailuresRetried
