CONSTANTS
  t1 = t1
  t2 = t2
  N = 3
  Thread = {t1, t2}
  Priority = {0}
  Edge <- StarEdges
  Query = {2}
SPECIFICATION FairSpec
INVARIANTS Acyclic PartitionKept
PROPERTIES UnionFindSpec LinkedStaysLinked CallsReturn
