SPECIFICATION LinkFairSpec
CONSTANTS
  p1 = p1
  p2 = p2
  NoPhoto = NoPhoto
  Photos = {p1, p2}
  OtherFiles = {}
  PhotoSize <- MCPhotoSize
  MaxChunk = 2
  AckChunks = {0, 1, 2}
  IdxMod = 2
  MaxStuckTicks = 2
  CounterMod = 2
  CardChunks = {1, 2}
  PipeDepth = 3
  MaxRequests = 3
  MaxFaults = 1
  MaxFiles = 2
INVARIANTS
  OnWireBeforeAdvance
  SidesAgree
PROPERTIES
  SuccessIsThisPhotos
  TransferEnds
