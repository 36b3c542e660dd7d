SPECIFICATION Spec
CONSTANTS
  Records = {m1, m2}
  NoRecord = NoRecord
  Absent = Absent
  BoxSize = 2
  NvmSize = 3
  PacketIds <- TwoIds
  Locked = FALSE
  Failures <- ButPower
PROPERTIES
  StoringLosesNone
