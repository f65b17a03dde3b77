\* A dex file is taken out, and the table grows during the walk.
SPECIFICATION Spec
CONSTANTS
  a = a
  b = b
  c = c
  Dexes = {a, b, c}
  Address <- MCAligned
  InitialSize = 2
  MaxSize = 8
  Null = Null
  Tombstone = Tombstone
  Junk = Junk
  NoDex = NoDex
SYMMETRY Symmetric
INVARIANT EveryLoadedDexListed
CHECK_DEADLOCK FALSE
