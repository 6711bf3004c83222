CONSTANTS
  num_samples = 2
  cols_per_sample = 2
  bkt_per_col = 2
  L0_SAMPLING = FALSE
  HashDepth <- SomeDepths
  num_host_threads = 2
  num_nodes = 3
  num_batch_per_buffer = 2
  batch_size = 2
  Uninitialized <- SomeContents
  Batches <- SomeBatches
  Inserts <- SomeInserts
  MaxBatches <- SomeBounds
  num_updates = 3
SPECIFICATION FairSpec
INVARIANTS SketchesExact SampleSound StoredWhole
PROPERTIES CallsReturn
