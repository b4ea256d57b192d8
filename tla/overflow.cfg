\* enforced_safemode is read before anything sets it.
SPECIFICATION Spec
CONSTANTS
  BatteryTreshold = 30
  StartManual = FALSE
  EnforcedGarbage <- Undefined
  LeopChecks <- LeopIsDone
  SpawnMayFail = FALSE
  MayTerminate = FALSE
  MayCrash = FALSE
  MaxChildren = 1
  MaxLeaks = 0
  StackLimit = 12
  SafemodeTexts <- BothTexts
  ManeuvermodeTexts <- Nobody
  ManualmodeTexts <- Nobody
  ExecCalls <- Nobody
  TempTexts <- Nobody
  BatteryLevels <- Nobody
  LeopTexts <- Nobody
  AdcsTexts <- Nobody
  PayloadSignals <- Nobody
INVARIANTS
  NoOverflow
