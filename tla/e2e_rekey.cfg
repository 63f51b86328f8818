CONSTANTS
  HA = HA
  HB = HB
  FA = FA
  FB = FB
  NoHandle = NoHandle
  NoFp = NoFp
  MaxEph = 3
  MaxLane = 1
  MaxUserSteps = 3
SPECIFICATION Spec
CHECK_DEADLOCK FALSE
INVARIANT RevokedPeerCatchesUp
