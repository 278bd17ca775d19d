SPECIFICATION FilterSpec
CONSTANTS
  MaxRows = 2
  HeartbeatInterval = 0
  LinkTimeout = 1
  FailClosed = TRUE
  PeerFaults = {"kill_switch", "watchdog", "fault"}
  Boards = {"MockSTM32H5", "Alvik"}
  Frames <- SomeFrames
  MaxWire = 1
  MaxRestarts = 1
  DbPersists = TRUE
INVARIANTS
  FilterTypeOK
  MotionIsLogged
  AckTellsTruth
  SentIsAccountedFor
PROPERTY
  BoardKeepsContract
