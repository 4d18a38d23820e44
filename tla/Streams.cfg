SPECIFICATION FairSpec
CONSTANTS
  s1 = s1
  s2 = s2
  k1 = k1
  k2 = k2
  p1 = p1
  none = none
  Streams = {s1, s2}
  Convs = {k1, k2}
  ConvOf <- MCConvOf
  Pages = {p1}
  NoStream = none
  MayFail = TRUE
  Budgets <- MCBudgets
INVARIANTS
  ActiveIsRunning
  ShownIsExact
  LiveIsRunning
PROPERTY StreamsEnd
CHECK_DEADLOCK FALSE
