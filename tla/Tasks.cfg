SPECIFICATION FairSpec
CONSTANTS
  t1 = t1
  t2 = t2
  none = none
  Names = {t1}
  MaxLoads = 3
  Nothing = none
  MayFail = TRUE
  MaxEdits = 2
  MaxRestarts = 1
INVARIANTS
  EnabledAsSet
  EveryFileLoaded
PROPERTY DueIsServed
CHECK_DEADLOCK FALSE
