SPECIFICATION FairSpec
CONSTANTS
  Configs <- MCConfigs
  Application <- MCApplication
  Output <- MCOutput
  empty = empty
  none = none
  Nothing = empty
  Absent = none
  MaxVersion = 2
  MaxInvocations = 2
INVARIANTS TypeOK VerdictRight OutputsOfFailures FreshDatabase BarFull
PROPERTIES NothingOnBadConfig Terminates
CHECK_DEADLOCK FALSE
