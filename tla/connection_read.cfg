SPECIFICATION FairSpec
CONSTANTS
  READ_SIZE = 3
  BUF_LIMIT = 5
  BLANK = 2
  HeadSizes = {3, 4, 8, 9}
  PIECE = 4
  TIMEOUT = 1
  REQUESTS = 2
INVARIANTS
  ReadTypeOK
  WaitsOnlyForMore
  WholeUnlessSplit
PROPERTIES
  ReapSparesTheHeard
  EveryRequestEnds
