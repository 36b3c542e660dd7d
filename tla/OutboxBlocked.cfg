SPECIFICATION FairSpec
CONSTANTS
  Records = {m1}
  NoRecord = NoRecord
  Absent = Absent
  BoxSize = 2
  NvmSize = 2
  PacketIds <- TwoIds
  Locked = TRUE
  Failures <- ButPower
PROPERTIES
  ResendDrains
