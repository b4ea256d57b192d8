\* Input arrives after the command has exited, while the buffer is full.
SPECIFICATION Spec
CONSTANTS
  ClientMessages <- InputOnly
  CommandLengths <- OneByte
  MaxMessages = 2
  MaxOutput = 0
  SpawnMayFail = FALSE
  SendMayFail = FALSE
  BindMayFail = FALSE
  MayBeTerminated = FALSE
  MayOutliveKill = FALSE
  LateData = FALSE
INVARIANTS
  InputNotExecuted
