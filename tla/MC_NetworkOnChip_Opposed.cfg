SPECIFICATION Spec
CONSTANTS
  Nodes <- OpposedNodes
  Tasks <- OpposedTasks
  InitNId <- OpposedInit
  DestNId <- OpposedDest
  DepTId <- OpposedDep
  MAX_FIFO_DEEP = 1
  MaxWait = 1
INVARIANTS SpinsOnlyLeft EntriesOnPath
CHECK_DEADLOCK FALSE
