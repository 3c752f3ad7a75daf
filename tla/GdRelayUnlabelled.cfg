\* Two learners with a relay and nothing to train on.
CONSTANTS
  NumThreads = 2
  RingSize = 2
  NumPasses = 1
  InitialPassLength = 9
  FileLen = 3
  Source = "text"
  Kinds = {"unlabelled"}
  Training = TRUE
  Globals <- Node
  ActiveSimulation = FALSE
SPECIFICATION FairSpec
INVARIANTS
  NoNullDereference
