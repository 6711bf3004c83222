CONSTANTS
  t1 = t1
  t2 = t2
  N = 5
  Thread = {t1, t2}
  Priority = {0}
  Edge = {}
  Query <- Node
  Chunk <- Halves
SPECIFICATION CCSpec
INVARIANTS SizeRight ConnectedSound
CHECK_DEADLOCK FALSE
