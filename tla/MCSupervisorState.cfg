SPECIFICATION SupervisorSpec
CONSTANTS
  MaxRef = 5
  DigestCapacity = 3
  HeartbeatTimeout = 2
  ClockModulus = 5
  Digests = {d1}
  NoDigest = noDigest
INVARIANTS
  TypeOK
  CausesHoldOverride
  IndInv
  RetainedIsTailOfFiled
  HolesWereAccepted
PROPERTIES
  ReleaseIsEarned
  ImplementsContract
