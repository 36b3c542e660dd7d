SPECIFICATION Spec
CONSTANTS
  NumDx = 2
  TicksPerSecond = 1
  InitProduct <- SmallProduct
  Tables <- NoTables
  Rates <- NoRates
  TestPeriods <- MCTests
  Service <- AllService
  PeriodBeforeStart = 1
  PeriodPause = 1
  PeriodWaitEvent = 1
  PeriodUpdate = 1
  MinDelta = 1
  ReverseDelay = 0
  CompletedDelay = 1
  MaxLoop = 1
  MayOverflow = FALSE
  PourCap = 2
INVARIANTS
  TypeOK
  OnePumpAtATime
