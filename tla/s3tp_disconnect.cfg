\* The client leaves while its command is about to exit.
SPECIFICATION Spec
CONSTANTS
  ClientMessages <- Silent
  CommandLengths <- OneByte
  MaxMessages = 1
  MaxOutput = 0
  SpawnMayFail = FALSE
  SendMayFail = FALSE
  BindMayFail = FALSE
  MayBeTerminated = FALSE
  MayOutliveKill = FALSE
  LateData = FALSE
INVARIANTS
  SurvivesDisconnect
