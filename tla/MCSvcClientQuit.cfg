CONSTANTS
  NPeers = 2
  MaxLines = 3
  Handles = {h1, h2}
  None = None
SPECIFICATION Spec
INVARIANT SendsOverHost
CHECK_DEADLOCK FALSE
