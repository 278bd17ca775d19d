SPECIFICATION FairSketchSpec
CONSTANTS
  MaxRef = 1
  DigestCapacity = 1
  HeartbeatTimeout = 1
  ClockModulus = 3
  Digests = {d1}
  NoDigest = noDigest
  RegisterEchoes = TRUE
  ModuleFaults = {"stuck"}
  SenseFails = FALSE
  PollInterval = 1
  Debounce = 0
  MaxPass = 1
  ConsoleEnabled = FALSE
  RequestsSent = FALSE
  BoardResets = FALSE
PROPERTIES
  HeldButtonLatches
  SilenceHalts
  LostContactIsNoticed
