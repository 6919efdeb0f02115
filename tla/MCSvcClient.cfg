CONSTANTS
  NPeers = 2
  MaxLines = 3
  Handles = {h1, h2}
  None = None
  Peers = {p, q, r, s}
  NULL = NULL
  Size = 4
  Packets = {p1, p2}
  Junk = junk
SPECIFICATION MCSpec
INVARIANTS
  SessionClean
  PeersAccounted
  FreedOnce
  LinesInOrder
  ListLinked
  AudioReadsLive
  MixesAllOnce
  CloseDestroysCages
  GateMatchesRing
  NeverTakesFromEmpty
PROPERTIES
  InputEndsProgram
  SigintLostOnlyToCommand
  MainProceeds
  PacketWakesSender
  KeepsOrder
CHECK_DEADLOCK FALSE
