SPECIFICATION FairSpec
CONSTANTS
  p1 = p1
  p2 = p2
  None = None
  c1 = c1
  c2 = c2
  Conns <- MCConns
  Parts <- MCParts
  Known <- MCKnown
  Requests <- MCRequests
  Capacity = 1
  BatchLen = 2
  MaxRequests <- MCMaxRequests
  MaxPanics = 1
INVARIANTS TypeOK OneActorPerPartition ChannelBounded AckedAtOffset RealTimeOrder BrokerInv
PROPERTIES Answered ServesAtomically
CHECK_DEADLOCK FALSE
