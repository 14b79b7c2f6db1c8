SPECIFICATION Spec
CONSTANTS
  PKT1 = PKT1
  PKT2 = PKT2
  reserved = reserved
  cam1 = cam1
  cam2 = cam2
  b1 = b1
  b2 = b2
  Inputs = {"POWERMC", "MPPTMC", "ADCSMC", "PAYLOADMC", "COMMMC"}
  InputSize <- MCInputSize
  Outputs = {PKT1, PKT2}
  Reserved = reserved
  NumEntries = 3
  FirstTables <- MCFirstTables
  Tables <- MCTables
  MaxCombined = 5
  Buffers = {b1, b2}
  LargestBlock = 6
  HkDepth = 2
  Data = {TRUE, FALSE}
  Clear = Clear
  CtrMod = 2
  HeaderSize = 1
  StaleThreshold = 2
  MissLimit = 3
  PipeDepth = 2
  Cameras = {cam1, cam2}
  FrameSize = 2
  Blocks = 2
  ChunkSize = 2
  MaxRetries = 1
  DsDepth = 2
  FileLimit = 3
  FileSizes = {0, 3, 4}
  PduLength = 2
  CountMod = 5
  Scheduled = PKT1
  Scenarios <- MCScenarios
INVARIANTS
  TypeOK
  PoolSound
  FaultsExplained
  SubscriptionsSound
  NoFalseAlarm
  PhotoWhole
  GroundRebuilds
PROPERTIES
  CompleteIsCurrent
  SilentBoardReported
CHECK_DEADLOCK FALSE
