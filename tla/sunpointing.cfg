\* The ADCS is commanded through maneuvers, safe mode, failures and a restart.
SPECIFICATION FairMission
CONSTANTS
  BatteryTreshold = 30
  StartManual = FALSE
  EnforcedGarbage <- Cleared
  LeopChecks <- LeopIsDone
  SpawnMayFail = FALSE
  MayTerminate = FALSE
  MayCrash = FALSE
  MaxChildren = 2
  MaxLeaks = 0
  StackLimit = 12
  SafemodeTexts <- OffText
  ManeuvermodeTexts <- BothTexts
  ManualmodeTexts <- Nobody
  ExecCalls <- Nobody
  TempTexts <- Nobody
  BatteryLevels <- LowAndFull
  LeopTexts <- Nobody
  AdcsTexts <- Nobody
  PayloadSignals <- Nobody
  MayFail <- AllButManual
  EarlyAnswer = FALSE
  MaxReports = 1
  MaxRestarts = 1
PROPERTIES
  SunpointingReached
