CONSTANTS
  MaxTime = 13
  Size = 3
  NULL = NULL
  Delay = 1
  MaxGap = 2
  MayReorder = TRUE
  MayDuplicate = TRUE
  DriftBound = 1
SPECIFICATION MCFairSpec
INVARIANTS
  CountMatchesSlots
  SlotsFollowClock
PROPERTIES
  NewerIsStored
  
