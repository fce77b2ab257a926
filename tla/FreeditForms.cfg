SPECIFICATION Spec
CONSTANTS
  Handlers = {h1}
  U32 = 4
  Missing = Missing
  Short = Short
  NoNumber = NaN
  NaN = NaN
  NoCookie = None
  None = None
  NoRequest = NoRequest
  g1 = g1
  Garbage <- MCGarbage
  Users <- MCUsers
  Sessions <- MCSessions
  Posters <- MCPosters
  Inns = {1}
  Iids = {1}
  Tags = {1, 2}
  Imported <- MCImported
  InitCount <- LateCount
  StatKeys <- MCStatKeys
  Lead <- MCLead
  InitStats = {1}
  ShortStats = {}
  MaxNow = 2
  Requests <- AllRequests
  MaxRequests = 3
  ReadOnly = FALSE
  PostInterval = 1
  MaxMentions = 2
  MaxTags = 1
  MaxCrashes = 1
PROPERTIES FreshNumbers AdmittedStores
CHECK_DEADLOCK FALSE
