CONSTANTS
  Conns = {c1, c2}
  Block = 2
  Values = {v0, v1}
  Default = v0
  Absent = Absent
  Unset = Unset
  None = None
  WireBound = 3
  MaxLen = 2
  Chars <- MCChars
  Packets <- MCPackets
  Strings = {s1, s2}
  Granule = 64
  Small = 32
  Pieces <- MCPieces
  LengthBound = 130
  Alphabet <- MCAlphabet
  TextsToSplit <- MCTexts
  Separators <- MCSeparators
  MaxPieces = 3
SPECIFICATION AllSpec
INVARIANTS
  SlotsOwned
  ReplicasFollow
  NoFault
  NoneDropped
  ContentInside
  SplitJoins
PROPERTY DecodesInOrder
CHECK_DEADLOCK FALSE
SYMMETRY Alike
