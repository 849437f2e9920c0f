SPECIFICATION BusSpec
CONSTANTS
  MAX_TEST_COT = 3
  MaxWait = 10
  ReadsOnce = TRUE
INVARIANTS DataFromAddressedSlave
