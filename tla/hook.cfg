SPECIFICATION Spec
CONSTANTS
  plain = plain
  fits = fits
  big = big
  huge = huge
  native = native
  abstract = abstract
  Methods <- MCMethods
  NumClasses = 4
  MethodsOf <- MCMethodsOf
  Kind <- MCKind
  Need <- MCNeed
  Room = 2
  Reserve = 1
INVARIANTS
  OwnCode
  LeftOutIsTooLarge
  FramesBalanced
  DeathHasCause
\* The process may die.
CHECK_DEADLOCK FALSE
