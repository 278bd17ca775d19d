SPECIFICATION SketchSpec
CONSTANTS
  MaxRef = 0
  DigestCapacity = 1
  HeartbeatTimeout = 1
  ClockModulus = 3
  Digests = {d1}
  NoDigest = noDigest
  RegisterEchoes = TRUE
  ModuleFaults = {"stuck"}
  SenseFails = TRUE
  PollInterval = 1
  Debounce = 0
  MaxPass = 2
  ConsoleEnabled = TRUE
  RequestsSent = TRUE
  BoardResets = TRUE
INVARIANTS
  SketchInv
  PassEndsEnforced
  MotionNeedsFreshTier
  WireTellsOverride
  HeldOpenUntilHeartbeat
  IsolationIsEvidence
  AgreementIsEvidence
PROPERTIES
  OverrideNeverCloses
