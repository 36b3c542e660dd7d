SPECIFICATION PanelSpec
CONSTANTS
  NumChars = 4
  CmdDigits = 2
  ArgsCmds = 2
  ArgsStrings = 1
  MaxFields = 4
  Commands <- SomeCommands
  KeysOf <- SomeKeys
  LoadOrder <- LoadCfgs
  MaxValue = 2
  Checked <- WithCheck
  NUM_DX = 2
  NUM_BTNS = 2
  Samples = 3
  Period = 4
INVARIANTS
  PanelTypeOK
  LineIsRead
  RamIsFlash
  RunsWithPin
  SettingIsWhole
  ReportIsFresh
PROPERTIES
  PressIsReported
  KeepsSettings
