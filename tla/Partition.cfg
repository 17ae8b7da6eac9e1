SPECIFICATION FairSpec
CONSTANTS
  small = small
  half = half
  huge = huge
  None = None
  Blob <- MCBlob
  BlobLen <- MCBlobLen
  Messages <- MCMessages
  Batches <- MCBatches
  Budgets <- MCBudgets
  MaxSegmentBytes = 100
  ReadBuffers = {40, 100}
  MaxOffset = 4
INVARIANTS TypeOK IndexExact OffsetsDense FilesPacked AckedReadable BatchPrefix
  FetchFaithful FetchWithinBudget IInv ClientInv
PROPERTIES LoopsFinish IsOffsetLog
