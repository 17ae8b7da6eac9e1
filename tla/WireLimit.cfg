SPECIFICATION Spec
CONSTANTS
  Absent = Absent
  MaxFrameSize = 79
  Scripts <- MCScripts
  MaxInFlight = 2
  Capacity <- MCCapacity
  Chunks = {1, 11}
  Offsets = {300}
  Fetched <- MCFetched
  Errors <- MCErrors
  Message <- MCMessage
INVARIANT RepliesFit
CHECK_DEADLOCK FALSE
