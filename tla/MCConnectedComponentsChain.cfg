CONSTANTS
  t1 = t1
  t2 = t2
  N = 6
  Thread = {t1, t2}
  Priority = {0, 1, 2, 3, 4, 5}
  Edge = {}
  Query <- Node
  Chunk <- Halves
SPECIFICATION ChainSpec
INVARIANT AnswerRight
CHECK_DEADLOCK FALSE
