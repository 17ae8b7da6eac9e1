SPECIFICATION Spec
CONSTANTS
  a = a
  b = b
  Zeros = Zeros
  Value <- MCValue
  Writes <- MCWrites
  SyncLevel = "LogAndIndex"
  BaseOffset = 3
  ReadCells = 1
  Faults = {{"kill"}}
  MaxRecords = 4
  MaxFaults = 1
INVARIANTS AckedDurable
CHECK_DEADLOCK FALSE
