SPECIFICATION MockSpec
CONSTANTS
  MaxRef = 2
  Capacity = 1
  HeartbeatTimeout = 1
  PollInterval = 0
  Digests = {d1}
  NoDigest = noDigest
  RegisterEchoes = TRUE
  ModuleFaults = {"stuck", "off_bus"}
  SenseFails = FALSE
  Settings <- EitherSetting
INVARIANTS
  MockTypeOK
  CausesLatch
  RetainedIsTail
  OverrideOpens
  WireTellsOverride
  CutIsSeen
  AttestationCanResume
PROPERTY
  MockImplementsContract
