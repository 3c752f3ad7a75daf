\* Two learners simulate active learning.
CONSTANTS
  NumThreads = 2
  RingSize = 2
  NumPasses = 1
  InitialPassLength = 9
  FileLen = 3
  Source = "text"
  Kinds = {"labelled"}
  Training = TRUE
  Globals <- Alone
  ActiveSimulation = TRUE
SPECIFICATION FairSpec
PROPERTIES
  NoEarlyReuse
