SPECIFICATION Spec
CONSTANTS
  a = a
  b = b
  Zeros = Zeros
  Value <- MCValue
  Writes <- MCWrites
  SyncLevel = "LogAndIndex"
  BaseOffset = 3
  ReadCells = 4
  Faults <- MCMixes
  MaxRecords = 4
  MaxFaults = 4
INVARIANTS AckedDurable OffsetsNotReused NoForeignReads SegmentInv
PROPERTIES AckedStayPut
CHECK_DEADLOCK FALSE
