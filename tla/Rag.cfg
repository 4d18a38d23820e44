SPECIFICATION MCFairSpec
CONSTANTS
  f1 = f1
  f2 = f2
  none = none
  NoFile = none
  Files = {f1, f2}
  Parts = 2
  MaxEdits = 2
  MaxRuns = 2
  MaxRestarts = 1
INVARIANTS
  RecordMatchesRows
PROPERTIES
  QuietRunCovers
  RunsEnd
CHECK_DEADLOCK FALSE
