SPECIFICATION Spec
CONSTANTS
  small = small
  half = half
  huge = huge
  None = None
  Blob <- MCBlob
  BlobLen <- MCBlobLen
  Messages <- MCMessages
  Batches <- MCBatches
  Budgets <- MCBudgets
  MaxSegmentBytes = 100
  ReadBuffers = {40, 100}
  MaxOffset = 4
INVARIANT FetchContiguous
