SPECIFICATION PerceptionSpec
CONSTANTS
  Backends = {"yolox", "posenet"}
  Backlog = 2
  MaxFrames = 2
  MaxConns = 3
PROPERTY
  ListenerKeepsServing
