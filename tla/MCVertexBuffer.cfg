CONSTANTS
  Tag <- FourTags
  MaxBatch = 3
  MaxBuffer = 5
SPECIFICATION Spec
INVARIANT BufferSorted
CHECK_DEADLOCK FALSE
