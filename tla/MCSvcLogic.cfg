CONSTANTS
  Peers = {a, b}
  Settings <- MCSettings
  Initial <- Plain
  SpeakTime = 2
  InboxBound = 1
SPECIFICATION FairSpec
INVARIANT ClientsToldAll
PROPERTIES
  HeardShown
  SpeakingEnds
  SpeakerShown
  SigintStops
