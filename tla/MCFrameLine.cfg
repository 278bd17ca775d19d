SPECIFICATION LineSpec
CONSTANTS
  MAGIC = 7
  PayloadLength <- TwoTypes
  TopLength = 12
  NoMember = 8
  Receivers = {"node", "tier", "controller"}
  MaxFrame = 8
  MaxPayload = 4
  Frames <- SomeFrames
  NoiseValues = {1, 7}
  MaxDamage = 2
  MaxSent = 4
  MaxChunk = 2
INVARIANTS
  LineTypeOK
  OnlySentFramesArrive
  DamageIsContained
CHECK_DEADLOCK FALSE
