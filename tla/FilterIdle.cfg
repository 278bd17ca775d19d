SPECIFICATION FairFilterSpec
CONSTANTS
  MaxRows = 1
  HeartbeatInterval = 1
  LinkTimeout = 1
  FailClosed = TRUE
  PeerFaults = {}
  Boards = {"MockSTM32H5"}
  Frames <- OneFrame
  MaxWire = 1
  MaxRestarts = 0
  DbPersists = TRUE
PROPERTY
  HeartbeatsKeepComing
