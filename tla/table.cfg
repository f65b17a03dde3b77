\* Two dex files, opened and closed at will; the table grows twice; three walks over it.
SPECIFICATION Spec
CONSTANTS
  a = a
  b = b
  c = c
  Dexes = {a, b}
  Address <- MCWrapping
  InitialSize = 2
  MaxSize = 8
  Null = Null
  Tombstone = Tombstone
  Junk = Junk
  NoDex = NoDex
INVARIANTS
  SearchesEnd
  CountsExact
  EntriesAlive
  CookiesAccepted
  WalkInBounds
  WalkComplete
  WalkOnce
  DeathHasCause
PROPERTY ImplementsSet
CHECK_DEADLOCK FALSE
