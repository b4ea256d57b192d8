\* One client after the other, with every fault.
SPECIFICATION FairSpec
CONSTANTS
  ClientMessages <- InputAndEof
  CommandLengths <- OneOrTwo
  MaxMessages = 2
  MaxOutput = 3
  SpawnMayFail = TRUE
  SendMayFail = TRUE
  BindMayFail = TRUE
  MayBeTerminated = TRUE
  MayOutliveKill = TRUE
  LateData = TRUE
INVARIANTS
  TypeOK
  FramingKept
  OutputInOrder
  CommandOwnsConnection
PROPERTIES
  CommandCompleted
  ReconnectsRegularly
  ShellKept
