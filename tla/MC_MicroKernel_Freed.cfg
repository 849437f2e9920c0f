SPECIFICATION Spec
CONSTANTS
  TaskIds <- Ids3
  TimeOut <- Shipped_TimeOut
  Priority <- Shipped_Priority
  WorkTime <- Shipped_WorkTime
  QUEUE_MAX = 3
  MallocFails = FALSE
INVARIANTS NoFreedAccess
CHECK_DEADLOCK FALSE
