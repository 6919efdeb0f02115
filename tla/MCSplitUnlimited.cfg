CONSTANTS
  MaxLen = 2
  Chars <- MCChars
  Packets <- MCPackets
  Strings = {s1, s2}
  Granule = 64
  Small = 32
  Pieces <- MCPieces
  LengthBound = 130
  Alphabet <- MCAlphabet
  TextsToSplit <- MCTexts
  Separators <- MCSeparators
  MaxPieces = 3
SPECIFICATION TextsSpec
INVARIANT SplitsAll
CHECK_DEADLOCK FALSE
