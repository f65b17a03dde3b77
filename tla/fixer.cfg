\* A well-formed dex file and one whose code items are cut off.  fixAll returns: no
\* step follows.
SPECIFICATION FairSpec
CONSTANTS
  Programs <- MCPrograms
  Word = 64
INVARIANTS
  WritesInstructions
  Restored
PROPERTY FixEnds
CHECK_DEADLOCK FALSE
