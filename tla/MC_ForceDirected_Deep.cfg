SPECIFICATION ForceSpec
CONSTANTS
  Delay <- ShippedDelay
  Power <- ShippedPower
  FrontGraphs <- StatementGraphs
INVARIANTS DeepCycleIsMax
CHECK_DEADLOCK FALSE
