SPECIFICATION TelSpec
CONSTANTS
  MaxDx = 1
INVARIANTS
  BufferKept
