CONSTANTS
  Conns = {c1, c2}
  Block = 2
  Values = {v0, v1}
  Default = v0
  Absent = Absent
  Unset = Unset
  None = None
  WireBound = 3
SPECIFICATION MCSpec
CHECK_DEADLOCK FALSE
INVARIANT PeersListExact
