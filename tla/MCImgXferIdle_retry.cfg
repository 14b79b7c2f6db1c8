SPECIFICATION IdleSpec
CONSTANTS
  p1 = p1
  NoPhoto = NoPhoto
  Photos = {p1}
  OtherFiles = {}
  PhotoSize <- MCPhotoSize
  MaxChunk = 1
  AckChunks = {1}
  IdxMod = 2
  MaxStuckTicks = 3
  CounterMod = 2
  SBTimeout = 5
  Schedule <- MCSchedule
  MaxLag = 0
  ReplyDelays = {0}
  CardRetries = TRUE
  MaxStray = 0
  WaitLimit = 0
PROPERTIES
  NoTransferHangs
