SPECIFICATION Spec
CONSTANTS
  MAX_BUFF_DEEP = 4
  MAX_TEST_COT = 8
  MaxWait = 1
  ReadsOnce = TRUE
INVARIANTS RdDataFits
