SPECIFICATION Spec
CONSTANTS
  Nodes <- PairNodes
  Tasks <- PairTasks
  InitNId <- PairInit
  DestNId <- PairDest
  DepTId <- PairDep
  MAX_FIFO_DEEP = 2
  MaxWait = 1
INVARIANTS TypeOK PollStillValid DependencyRespected
PROPERTIES FifosAreQueues ImplementsTaskDelivery DoneAtDestination
