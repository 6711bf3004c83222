CONSTANTS
  t1 = t1
  t2 = t2
  Thread <- TwoThreads
  BatchWorker <- TwoThreads
  num_vertices = 3
  num_subgraphs = 3
  max_edges = 1
  start_subgraph = 0
  MaxOverrun = 1
  RawDepth <- MixedDepths
  Batches <- SingleBatches
  MaxBatches = 3
SPECIFICATION AlgFairSpec
INVARIANT ContractionInv
PROPERTY CallsReturn
