\* The ADCS answers before trigger_detumbling.sh has exited.
SPECIFICATION FairMission
CONSTANTS
  BatteryTreshold = 30
  StartManual = FALSE
  EnforcedGarbage <- Cleared
  LeopChecks <- LeopIsDone
  SpawnMayFail = FALSE
  MayTerminate = FALSE
  MayCrash = FALSE
  MaxChildren = 2
  MaxLeaks = 0
  StackLimit = 12
  SafemodeTexts <- Nobody
  ManeuvermodeTexts <- BothTexts
  ManualmodeTexts <- Nobody
  ExecCalls <- Nobody
  TempTexts <- Nobody
  BatteryLevels <- FullLevel
  LeopTexts <- Nobody
  AdcsTexts <- Nobody
  PayloadSignals <- Nobody
  MayFail <- Nobody
  EarlyAnswer = TRUE
  MaxReports = 1
  MaxRestarts = 0
PROPERTIES
  SunpointingReached
