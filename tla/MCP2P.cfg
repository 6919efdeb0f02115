CONSTANTS
  NPeers = 2
  Hosts = {a, b}
  MaxSent = 2
  MaxGot = 2
SPECIFICATION FairSpec
INVARIANTS
  StatsExact
  UsedWhileThere
PROPERTIES
  SigintEnds
CHECK_DEADLOCK FALSE
