\* The client ends its input.
SPECIFICATION Spec
CONSTANTS
  ClientMessages <- EofOnly
  CommandLengths <- OneByte
  MaxMessages = 2
  MaxOutput = 0
  SpawnMayFail = FALSE
  SendMayFail = FALSE
  BindMayFail = FALSE
  MayBeTerminated = FALSE
  MayOutliveKill = FALSE
  LateData = FALSE
PROPERTIES
  EndOfInputAccepted
