SPECIFICATION FairSpec
CONSTANTS
  NumDx = 1
  TicksPerSecond = 1
  InitProduct <- SmallProduct
  Tables <- NoTables
  Rates <- NoRates
  TestPeriods <- MCTests
  Service <- MotorService
  PeriodBeforeStart = 1
  PeriodPause = 1
  PeriodWaitEvent = 1
  PeriodUpdate = 2
  MinDelta = 1
  ReverseDelay = 1
  CompletedDelay = 2
  MaxLoop = 1
  MayOverflow = FALSE
  PourCap = 4
PROPERTIES
  PourEnds
  AbandonedMachineFrees
  MotorTestEnds
