SPECIFICATION Spec
CONSTANTS
  Records = {m1, m2}
  NoRecord = NoRecord
  Absent = Absent
  BoxSize = 2
  NvmSize = 2
  PacketIds <- OneId
  Locked = TRUE
  Failures <- StoreFailures
INVARIANTS
  TypeOK
  StoredIsReadable
PROPERTIES
  KeepsRecords
  FlashIsKept
  RoundRobin
