\* A code item with an opcode that has no width.
SPECIFICATION FairSpec
CONSTANTS
  Programs <- MCJunk
  Word = 64
PROPERTY FixEnds
