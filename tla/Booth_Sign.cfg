SPECIFICATION BoothSpec
CONSTANTS
  BITSIZE = 5
  RangeBits = 5
INVARIANTS BinIsDec
CHECK_DEADLOCK FALSE
