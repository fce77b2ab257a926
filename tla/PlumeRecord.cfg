SPECIFICATION FairSpec
CONSTANTS
  none = none
  Id = {1, 2, 3}
  User = {1, 2}
  None = none
  ConnId = 1
  InitRows <- Either
  InitPosts <- OfOther
PROPERTIES RecordGoes
CHECK_DEADLOCK FALSE
