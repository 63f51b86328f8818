CONSTANTS
  Handles = {h1, h2}
  Fps = {f1, f2}
  NoHandle = NoHandle
  NoFp = NoFp
  MaxKey = 2
  MaxEph = 2
  MaxPeerKey = 1
  MaxUserSteps = 4
  MaxMoves = 2
SPECIFICATION Spec
CHECK_DEADLOCK FALSE
PROPERTY RevokedStaysRevoked
