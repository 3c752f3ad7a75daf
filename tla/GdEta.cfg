\* Two learners, two passes: how often does the learning rate decay?
CONSTANTS
  NumThreads = 2
  RingSize = 2
  NumPasses = 2
  InitialPassLength = 9
  FileLen = 2
  Source = "text_to_cache"
  Kinds = {"labelled"}
  Training = TRUE
  Globals <- Alone
  ActiveSimulation = FALSE
SPECIFICATION FairSpec
INVARIANTS
  DecaysOncePerPass
