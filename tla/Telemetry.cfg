SPECIFICATION TelSpec
CONSTANTS
  MaxDx = 2
INVARIANTS
  TelTypeOK
  
  StockTakeKept
  AnsweredOnConnection
