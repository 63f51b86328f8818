CONSTANTS
  Handles = {h1, h2}
  Fps = {f1, f2}
  NoHandle = NoHandle
  NoFp = NoFp
  MaxKey = 2
  MaxEph = 1
  MaxPeerKey = 1
  MaxUserSteps = 4
  MaxMoves = 3
SYMMETRY Symmetry
SPECIFICATION Spec
CHECK_DEADLOCK FALSE
INVARIANT TypeOK
INVARIANT KeyringAgrees
INVARIANT LineReadersAreRecipients
INVARIANT KeyHoldersAreRecipients
