SPECIFICATION FairSpec
CONSTANTS
  Handlers = {h1, h2}
  U32 = 4
  Missing = Missing
  Short = Short
  NoNumber = NaN
  NaN = NaN
  NoCookie = None
  None = None
  NoRequest = NoRequest
  g1 = g1
  Garbage <- MCGarbage
  Users <- MCUsers
  Sessions <- MCSessions
  Posters <- MCPosters
  Inns = {1}
  Iids = {1}
  Tags = {1}
  Imported <- OfAdmin
  InitCount <- ShortCount
  StatKeys <- MCStatKeys
  Lead <- Poisoned
  InitStats = {3, 6, 8, 9, 10}
  ShortStats = {10}
  MaxNow = 2
  Requests <- AdminRequests
  MaxRequests = 2
  ReadOnly = TRUE
  PostInterval = 1
  MaxMentions = 2
  MaxTags = 1
  MaxCrashes = 1
INVARIANTS OnlyDueGo NothingWithoutCounter
PROPERTIES AdmittedStores Answered StatsExpire
CHECK_DEADLOCK FALSE
