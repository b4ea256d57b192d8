\* Mode and LEOP requests, heat and battery in every order, with failing scripts.
SPECIFICATION ObservedSpec
CONSTANTS
  BatteryTreshold = 30
  StartManual = FALSE
  EnforcedGarbage <- Cleared
  LeopChecks <- LeopIsDone
  SpawnMayFail = FALSE
  MayTerminate = TRUE
  MayCrash = TRUE
  MaxChildren = 2
  MaxLeaks = 1
  StackLimit = 6
  SafemodeTexts <- BoolTexts
  ManeuvermodeTexts <- BothTexts
  ManualmodeTexts <- BothTexts
  ExecCalls <- Nobody
  TempTexts <- SpelledTemps
  BatteryLevels <- LowAndFull
  LeopTexts <- LeopEnds
  AdcsTexts <- Nobody
  PayloadSignals <- Nobody
INVARIANTS
  EmergencyHandled
  NoOverflow
PROPERTIES
  ActionsAccounted
  ReasonTruthful
  ModeChangeRunsScript
  ModesKept
