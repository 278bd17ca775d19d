SPECIFICATION RigSpec
CONSTANTS
  MaxRef = 2
  DigestCapacity = 1
  HeartbeatTimeout = 1
  ClockModulus = 3
  Digests = {}
  NoDigest = noDigest
  MaxRows = 2
  HeartbeatInterval = 1
  LinkTimeout = 1
  FailClosed = TRUE
  PeerFaults = {}
  Boards = {"MockSTM32H5"}
  Frames <- OneDetection
  MaxWire = 2
  MaxRestarts = 0
  DbPersists = TRUE
  NodeCauses = {"OPERATOR_BUTTON"}
  Loses = {"to_node"}
  MaxTampers = 1
  MaxReviews = 1
INVARIANTS
  AtMostOneAfterLatch
  UntouchedLogVerifies
  EditsAreFound
