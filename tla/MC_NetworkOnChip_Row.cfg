SPECIFICATION FairSpec
CONSTANTS
  Nodes <- RowNodes
  Tasks <- RowTasks
  InitNId <- RowInit
  DestNId <- RowDest
  DepTId <- RowDep
  MAX_FIFO_DEEP = 2
  MaxWait = 1
PROPERTIES AllDelivered AllThreadsExit
