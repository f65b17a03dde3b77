SPECIFICATION Spec
CONSTANTS
  NumClasses = 5
  MethodId <- MCMethodId
  Method <- MCMethod
  ClassOf <- MCClassOf
  ListOf <- MCListOf
  HasCode = {1, 2, 3, 9, 12, 20}
  Kept = {1, 2, 9, 12, 20}
  SizeOf <- MCSizeOf
  OtherMembers = {2}
  NoData = {3, 4}
  Foreign = {1}
  CodeLens = {18}
  DataLens = {9, 12}
  StringIdsOff = 112
  ClassDefsOff = 140
  HeaderDataEnd = 301
  Optimised = TRUE
  DepsLen = 50
INVARIANTS
  ItemsApart
  LookupSucceeds
  OffsetsLead
  ReaderFindsCode
CHECK_DEADLOCK FALSE
