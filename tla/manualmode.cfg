\* Manual mode and safe mode before deployment: timers, failures and a restart.
SPECIFICATION FairMission
CONSTANTS
  BatteryTreshold = 30
  StartManual = FALSE
  EnforcedGarbage <- Cleared
  LeopChecks <- LeopUndeployed
  SpawnMayFail = FALSE
  MayTerminate = FALSE
  MayCrash = FALSE
  MaxChildren = 3
  MaxLeaks = 0
  StackLimit = 12
  SafemodeTexts <- BothTexts
  ManeuvermodeTexts <- Nobody
  ManualmodeTexts <- BothTexts
  ExecCalls <- Nobody
  TempTexts <- Nobody
  BatteryLevels <- LowAndFull
  LeopTexts <- Nobody
  AdcsTexts <- Nobody
  PayloadSignals <- Nobody
  MayFail <- AllButManual
  EarlyAnswer = FALSE
  MaxReports = 1
  MaxRestarts = 1
PROPERTIES
  ManualmodeEnds
  EmergencyNotHidden
