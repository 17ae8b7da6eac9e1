SPECIFICATION Spec
CONSTANTS
  a = a
  b = b
  Zeros = Zeros
  Value <- MCValue
  Writes <- MCWrites
  SyncLevel = "LogAndIndex"
  BaseOffset = 3
  ReadCells = 4
  Faults = {{"power"}}
  MaxRecords = 4
  MaxFaults = 2
INVARIANTS AckedReadable
CHECK_DEADLOCK FALSE
