SPECIFICATION FairPerceptionSpec
CONSTANTS
  Backends = {"yolox", "posenet"}
  Backlog = 2
  MaxFrames = 2
  MaxConns = 3
INVARIANTS
  PerceptionTypeOK
  GovernedOnceInOrder
PROPERTY
  EarComesBack
