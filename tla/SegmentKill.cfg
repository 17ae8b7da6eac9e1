SPECIFICATION FairSpec
CONSTANTS
  a = a
  b = b
  Zeros = Zeros
  Value <- MCValue
  Writes <- MCWrites
  SyncLevel = "None"
  BaseOffset = 3
  ReadCells = 4
  Faults = {{"kill"}}
  MaxRecords = 4
  MaxFaults = 3
INVARIANTS TypeOK AckedReadable IndexSound SizeIsFileLength
PROPERTIES Recovers
CHECK_DEADLOCK FALSE
