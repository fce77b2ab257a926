SPECIFICATION Spec
CONSTANTS
  Handlers = {h1, h2}
  U32 = 4
  Missing = Missing
  Short = Short
  NoNumber = NaN
  NaN = NaN
  NoCookie = None
  None = None
  NoRequest = NoRequest
  g1 = g1
  Garbage <- MCGarbage
  Users <- MCUsers
  Sessions <- MCSessions
  Posters <- MCPosters
  Inns = {1}
  Iids = {1}
  Tags = {1}
  Imported <- MCImported
  InitCount <- MCCount
  StatKeys <- MCStatKeys
  Lead <- MCLead
  InitStats = {5, 6}
  ShortStats = {6}
  MaxNow = 2
  Requests <- EditRequests
  MaxRequests = 3
  ReadOnly = FALSE
  PostInterval = 1
  MaxMentions = 2
  MaxTags = 1
  MaxCrashes = 1
INVARIANTS TypeOK IndexedStored RedirectMeansPublished  StatsNeverCreated
PROPERTIES CounterNeverLost AuthorEdits ImplementsPostStore
CHECK_DEADLOCK FALSE
