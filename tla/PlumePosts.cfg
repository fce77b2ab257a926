SPECIFICATION Spec
CONSTANTS
  none = none
  Id = {1, 2, 3}
  User = {1, 2}
  None = none
  ConnId = 1
  InitRows <- Either
  InitPosts <- OfOther
PROPERTIES OnlyOwnPosts
CHECK_DEADLOCK FALSE
