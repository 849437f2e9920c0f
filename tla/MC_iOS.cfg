SPECIFICATION EitherSpec
CONSTANTS
  TaskIds <- Ids3
  TimeOut <- Short_TimeOut
  Priority <- Shipped_Priority
  WorkTime <- Short_WorkTime
  Node <- FourNodes
  NodePriority <- TwoAlike
  QUEUE_MAX = 3
  MallocFails = TRUE
INVARIANTS TypeOK ListIsQueue FreedAsForeseen
PROPERTIES TickSeparatesQueues NoRequestLost FrozenAfterFailure EmergencyServed
CHECK_DEADLOCK FALSE
