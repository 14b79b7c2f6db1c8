SPECIFICATION MCSpec
CONSTANTS
  hk = hk
  photos = photos
  NoFile = NoFile
  Dest = {hk, photos}
  Moves = {photos}
  MaxCount = 2
  MaxTime = 1
  HeaderSize = 1
  HkCycle = 1
  PacketLengths = {3}
  FilterLists <- MCLists
  MinSize = 3
  MinAge = 1
  SizeLimits = {3, 7}
  AgeLimits = {2}
  Stems <- MCStems
  DefaultStem <- MCStem
  DefaultSize <- MCSize
  DefaultAge = 2
  AppNames = {"ds"}
  Images <- MCImages
  MaxPackets = 3
  MaxEvents = 1
INVARIANTS
  TypeOK
  PacketsKept
  CdsCurrent
  OpenFilesSound
PROPERTIES
  SizeLimited
  CompleteFrozen
  OpenFileCloses
