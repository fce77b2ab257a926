SPECIFICATION Spec
CONSTANTS
  home = home
  doc = doc
  note = note
  sig = sig
  ann = ann
  ben = ben
  d = d
  none = none
  Page <- MCPage
  Signature <- MCSignature
  Agent <- MCAgent
  Data <- MCData
  None = none
  Commits <- MCCommits
  Options <- MCOptions
  InitStores <- MCInitStores
  SelfUrl = home
  TicksPerMs = 3
  Slack = 1
  MaxNow = 2
  MaxCommits = 2
  MaxDepth = 5
INVARIANTS DeepMeansCycle
PROPERTIES NothingCommitted ChangesRecorded RecordsStay OnlyAllowed
CHECK_DEADLOCK FALSE
