CONSTANTS
  MaxTime = 19
  Size = 3
  NULL = NULL
  Delay = 2
  MaxGap = 4
  MayReorder = TRUE
  MayDuplicate = FALSE
  DriftBound = 1
SPECIFICATION MCSpec
PROPERTY PlacesOnlyNewer
