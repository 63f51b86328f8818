CONSTANTS
  HA = HA
  HB = HB
  FA = FA
  FB = FB
  NoHandle = NoHandle
  NoFp = NoFp
  MaxEph = 2
  MaxLane = 1
  MaxUserSteps = 3
SPECIFICATION FairSpec
CHECK_DEADLOCK FALSE
INVARIANT TypeOK
INVARIANT RecipientKeepsUp
PROPERTY AutoAnswers
