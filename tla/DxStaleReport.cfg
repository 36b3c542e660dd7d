SPECIFICATION Spec
CONSTANTS
  NumDx = 2
  TicksPerSecond = 1
  InitProduct <- MCProduct
  Tables <- NoTables
  Rates <- NoRates
  TestPeriods <- NoTests
  Service <- NoService
  PeriodBeforeStart = 2
  PeriodPause = 3
  PeriodWaitEvent = 4
  PeriodUpdate = 2
  MinDelta = 2
  ReverseDelay = 1
  CompletedDelay = 5
  MaxLoop = 2
  MayOverflow = TRUE
  PourCap = 9
INVARIANTS
  FinishedHasVolume
