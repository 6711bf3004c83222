CONSTANTS
  t1 = t1
  t2 = t2
  Thread <- TwoThreads
  BatchWorker <- OneWorker
  num_vertices = 3
  num_subgraphs = 3
  max_edges = 2
  start_subgraph = 0
  MaxOverrun = 1
  RawDepth <- MixedDepths
  Batches <- MixedBatches
  MaxBatches = 6
SPECIFICATION AlgSpec
INVARIANTS SketchesExact StoreParity NumEdgesRight LevelsAgree
PROPERTIES SubgraphReady
