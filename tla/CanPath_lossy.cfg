SPECIFICATION FairSpec
CONSTANTS
  Blocks = 3
  Parts = 4
  Tries = 5
  HwDepth = 3
  Capacity = 4
  ForeignReplies = {0, 2}
  MaxForeign = 1
INVARIANT TypeOK
INVARIANT AckedIsOnBoard
PROPERTY CalmInstalls
