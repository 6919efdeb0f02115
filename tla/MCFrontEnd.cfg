CONSTANTS
  Servers = {s1, s2}
  Infos = {v}
  None = None
  MaxChanges = 6
  BacklogBound = 2
SPECIFICATION MCSpec
CHECK_DEADLOCK FALSE
INVARIANTS
  TypeOK
  CopyFollows
  WindowFollows
PROPERTIES
  WindowCatchesUp
  DeathNoticed
  KillReturns
