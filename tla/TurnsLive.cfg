SPECIFICATION FairSpec
CONSTANTS
  m1 = m1
  m2 = m2
  m3 = m3
  c1 = c1
  n1 = n1
  n2 = n2
  feed = feed
  none = none
  error = error
  Msgs = {m1, m2}
  OldConvs <- MCOldConvs
  NewConvs <- MCNewConvs
  Feed = feed
  NoConv = none
  ErrorConv = error
  Shapes <- ChatShapes
  MaxIterations = 1
  LoadLimit = 4
  HistoryLimit = 2
  MaxDeliveries = 2
  MaxLapses = 0
PROPERTY TurnsEnd
CHECK_DEADLOCK FALSE
