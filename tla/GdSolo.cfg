\* One learner, alone or with the relay; two passes, the second from the cache
\* the first writes; some examples are tagged save.
CONSTANTS
  NumThreads = 1
  RingSize = 2
  NumPasses = 2
  InitialPassLength = 9
  FileLen = 3
  Source = "text_to_cache"
  Kinds = {"labelled", "unlabelled", "save"}
  Training = TRUE
  Globals <- AloneOrNode
  ActiveSimulation = FALSE
SPECIFICATION SoloSpec
INVARIANTS
  AllAccounted
PROPERTIES
  Termination
