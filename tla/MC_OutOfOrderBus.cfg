SPECIFICATION FairSpec
CONSTANTS
  MAX_BUFF_DEEP = 2
  MAX_TEST_COT = 3
  MaxWait = 1
  ReadsOnce = TRUE
INVARIANTS TypeOK RequestInOwnRange MasterPollStillValid
PROPERTIES ReadsInRequestOrder EndsUnlessOverrun
