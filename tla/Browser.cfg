SPECIFICATION BrowserFairSpec
CONSTANTS
  MaxCalls = 3
  MaxSteps = 2
  MaxCrashes = 1
INVARIANTS
  OnlyTornOutlive
  OrphansAreRaced
  ChainIsOwn
PROPERTY EverythingEnds
CHECK_DEADLOCK FALSE
