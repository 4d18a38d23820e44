SPECIFICATION FairSpec
CONSTANTS
  d1 = d1
  d2 = d2
  c1 = c1
  c2 = c2
  old = old
  none = none
  Sessions = {d1, d2}
  Used = {d1}
  Closers = {c1}
  Old = old
  NoDir = none
  NoSession = none
  MaxLaunches = 3
  MaxTries = 2
INVARIANT BusyIsWorking
PROPERTIES
  NoDoubleLaunch
  CreatedIsOpen
  CallsSettle
CHECK_DEADLOCK FALSE
