SPECIFICATION FairSpec
CONSTANTS
  c1 = c1
  c2 = c2
  Msgs = {1, 2, 3}
  Blank = {2}
  Sent = {3}
  Convs = {c1, c2}
  WellKnown = {c1}
  ConvOf <- MCConvOf
  Last = 2
  MaxPerRun = 2
  MaxTime = 2
  MaxFails = 1
  MaxStops = 1
INVARIANTS
  NothingSkipped
  OwnMessagesInOrder
  NoNeedlessCopies
  DeletedIsForgotten
PROPERTY EveryMessageFound
CHECK_DEADLOCK FALSE
