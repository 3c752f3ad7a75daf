\* Two learners and an example tagged save.
CONSTANTS
  NumThreads = 2
  RingSize = 2
  NumPasses = 1
  InitialPassLength = 9
  FileLen = 3
  Source = "text"
  Kinds = {"labelled", "save"}
  Training = TRUE
  Globals <- Alone
  ActiveSimulation = FALSE
SPECIFICATION FairSpec
INVARIANTS
  NoAssertFailure
