SPECIFICATION Spec
CONSTANTS
  p1 = p1
  p2 = p2
  p3 = p3
  ds1 = ds1
  NoPhoto = NoPhoto
  Photos = {p1, p2, p3}
  OtherFiles = {ds1}
  PhotoSize <- MCPhotoSize
  MaxChunk = 4
  AckChunks = {0, 1, 3, 4, 5}
  IdxMod = 2
  MaxStuckTicks = 2
  CounterMod = 2
INVARIANTS
  TypeOK
  ImageCovered
  HandedInOrder
  ChunkInRange
  FileOpenIffActive
PROPERTIES
  OneOutcomePerTransfer
  TransferIsOfOnePhoto
  DeliversImages
