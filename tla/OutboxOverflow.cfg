SPECIFICATION Spec
CONSTANTS
  Records = {m1, m2, m3}
  NoRecord = NoRecord
  Absent = Absent
  BoxSize = 2
  NvmSize = 1
  PacketIds <- ThreeIds
  Locked = TRUE
  Failures <- Calls
INVARIANTS
  OneResend
PROPERTIES
  KeepsRecords
SYMMETRY Alike
