SPECIFICATION Spec
CONSTANTS
  m1 = 1
  m2 = 4
  m3 = 2
  m4 = 5
  m5 = 3
  Invalid = 0
  CmdMid = 2
  SendHkMid = 5
  Mids = {1, 2, 3, 4, 5}
  NumBuckets = 3
  NumPackets = 4
  Tables <- MCTables
  Refusable = {1}
CHECK_DEADLOCK FALSE
INVARIANTS
  OwnMidsKept
