CONSTANTS
  num_vertices = 4
  num_threads = 3
  num_samples = 3
  InputGraph <- SomeGraphs
SPECIFICATION FairSpec
INVARIANTS ForestKept QueryExact InstructionsExact SupernodesWhole
PROPERTY Terminates
CHECK_DEADLOCK FALSE
