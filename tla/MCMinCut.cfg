CONSTANTS
  num_vertices = 4
  num_sketch_graphs = 2
  num_graphs = 3
  Setups <- SomeSetups
  Updates <- SomeUpdates
  num_samples = 2
  k = 2
  Beyond = {0}
  SampleFails = TRUE
SPECIFICATION FairSpec
INVARIANTS FilterEffect NoRace Certificate SketchesRestored AnswerCurrent MinCutAnswer
PROPERTY QueryReturns
CHECK_DEADLOCK FALSE
