CONSTANTS
  Size = 4
  Packets = {p1, p2}
  Junk = junk
SPECIFICATION QSpec
PROPERTY ImplementsFifo
