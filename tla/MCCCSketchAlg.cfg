CONSTANTS
  s1 = s1
  s2 = s2
  Free = Free
  StreamThread = {s1, s2}
  num_vertices = 3
  SaveCode = {"CONNECTIVITY", "KSPANNINGFORESTS"}
  K = 2
  MaxUpdates = 4
SPECIFICATION FairSpec
INVARIANTS AnswerExact SketchesExact ForestsPeeled
PROPERTY UpdatesReturn
CHECK_DEADLOCK FALSE
