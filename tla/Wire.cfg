SPECIFICATION FairSpec
CONSTANTS
  Absent = Absent
  MaxFrameSize = 79
  Scripts <- MCScripts
  MaxInFlight = 2
  Capacity <- MCCapacity
  Chunks = {1, 11}
  Offsets = {300}
  Fetched <- MCFetched
  Errors <- MCErrors
  Message <- MCMessage
INVARIANTS TypeOK FramesIntact RequestsIntact RepliesIntact FailureHasCause WireInv Conversation
PROPERTIES IsSession Completes Released
CHECK_DEADLOCK FALSE
