SPECIFICATION FairSpec
CONSTANTS
  old = old
  new = new
  hold = hold
  hnew = hnew
  Password <- MCPassword
  Hash <- MCHash
  Accepts <- MCAccepts
  Persons <- MCPersons
  MaxNow = 3
  MaxChanges = 2
INVARIANTS TokensOfTheFit
PROPERTIES Ends
CHECK_DEADLOCK FALSE
