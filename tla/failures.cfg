\* Scripts that cannot be started or are killed, a daemon that dies at any point.
SPECIFICATION Spec
CONSTANTS
  BatteryTreshold = 30
  StartManual = FALSE
  EnforcedGarbage <- Cleared
  LeopChecks <- LeopFailed
  SpawnMayFail = TRUE
  MayTerminate = TRUE
  MayCrash = TRUE
  MaxChildren = 1
  MaxLeaks = 1
  StackLimit = 12
  SafemodeTexts <- BothTexts
  ManeuvermodeTexts <- BothTexts
  ManualmodeTexts <- BothTexts
  ExecCalls <- OneCaller
  TempTexts <- OkTemp
  BatteryLevels <- LowAndFull
  LeopTexts <- LeopEnds
  AdcsTexts <- AdcsDetumb
  PayloadSignals <- PayloadAll
INVARIANTS
  TypeOK
  EmergencyHandled
  MeasuringOnlyWhenFit
  TriggersFit
PROPERTIES
  ActionsAccounted
  CommandRunsOnce
