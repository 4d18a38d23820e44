SPECIFICATION FairSpec
CONSTANTS
  lead = lead
  planner = planner
  w1 = w1
  w2 = w2
  none = none
  Lead = lead
  SubAgents = {planner, w1, w2}
  Parent <- MCParent
  Name <- MCName
  NoAgent = none
  CanDelegate = {lead, planner}
  MaxRound = 2
INVARIANTS
  NothingLeftBehind
  SourcesFromResolved
  SourcesKept
PROPERTIES
  KeepsPromise
  KeepsFairPromise
CHECK_DEADLOCK FALSE
