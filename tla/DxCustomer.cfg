SPECIFICATION Spec
CONSTANTS
  NumDx = 2
  TicksPerSecond = 1
  InitProduct <- SmallProduct
  Tables <- SmallTables
  Rates <- SmallRates
  TestPeriods <- NoTests
  Service <- ConfigService
  PeriodBeforeStart = 1
  PeriodPause = 2
  PeriodWaitEvent = 2
  PeriodUpdate = 2
  MinDelta = 1
  ReverseDelay = 1
  CompletedDelay = 2
  MaxLoop = 1
  MayOverflow = TRUE
  PourCap = 3
INVARIANTS
  MotorMatchesState
  SessionMatchesState
  SelectionFromTable
  UncountedPourBounded
  NeverOverCharged
  ScreenMatchesState
PROPERTIES
  KeepsContract
