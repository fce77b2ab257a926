SPECIFICATION FairSpec
CONSTANTS
  a = a
  b = b
  garbage = garbage
  Value <- MCValue
  Garbage = garbage
  U64 = 16
  MaxLen = 9
INVARIANTS InBounds LoopSeesItems
PROPERTIES ImplementsVecSeq PushEnds
CHECK_DEADLOCK FALSE
