SPECIFICATION FairSpec
CONSTANTS
  w1 = w1
  w2 = w2
  cap = cap
  usr = usr
  fac = fac
  old = old
  new = new
  hold = hold
  hnew = hnew
  None = None
  Worker = {w1, w2}
  Key = {cap}
  Factor = {fac}
  Nonce = {2, 5}
  Width = 4
  User = {usr}
  Password = {old, new}
  Hash = {hold, hnew}
  Accepts <- MCAccepts
  Requests <- MCRequests
  MaxRequests = 3
  MaxChanges = 2
INVARIANTS LateSaves SolvesCount OkMeansGone
PROPERTIES DeletedByPassword Answered
CHECK_DEADLOCK FALSE
