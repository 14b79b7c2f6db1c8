SPECIFICATION IdleSpec
CONSTANTS
  p1 = p1
  NoPhoto = NoPhoto
  Photos = {p1}
  OtherFiles = {}
  PhotoSize <- MCPhotoSize
  MaxChunk = 1
  AckChunks = {1}
  IdxMod = 2
  MaxStuckTicks = 3
  CounterMod = 2
  SBTimeout = 5
  Schedule <- MCSchedule
  MaxLag = 1
  ReplyDelays = {0, 1}
  CardRetries = FALSE
  MaxStray = 1
  WaitLimit = 66
INVARIANTS
  AbortedInTime
PROPERTIES
  NotAbortedEarly
