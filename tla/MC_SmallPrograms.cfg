SPECIFICATION ProgramsSpec
CONSTANTS
  Alus <- ThreeAlus
  Commands = 3
  MAX_TEST_COT = 3
  MaxWait = 2
  ReadsOnce = FALSE
  BATTERY_CONTAIN = 100
  Initial = 2
  ChargeStep = 1
  Consume <- ShippedConsume
  ChargesInARow = 2
  Rounds = 3
  UINT = 65536
  COUNT_DONE = 10
  COUNT_HALT1 = 3
  COUNT_HALT2 = 6
  BITSIZE = 4
  RangeBits = 5
  Work <- ShippedWork
  TimeConstrain = 50
  Vertex <- FourVertices
  TimingGraphs <- SmallGraphs
  Delay <- ShippedDelay
  Power <- ShippedPower
  FrontGraphs <- StatementGraphs
INVARIANTS
  TypeOK ListIntact WorkersListed GivesUpForMemoryOnly
  BusTypeOK RequestNotOverwritten
  ChargeInRange CountsToDone UpperHalfIsC ProductOfExtended
  AnswersAreTheFittingChoices ExactOnTrees
  ChainsFitCycle CyclesExact MovingKeepsLength
PROPERTIES BusComesToRest BatteryAffordsRuns CounterReturns
