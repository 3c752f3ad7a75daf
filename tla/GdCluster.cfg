\* Two learners and the relay, as node 0 and in both modes that train on the
\* master's predictions.
CONSTANTS
  NumThreads = 2
  RingSize = 2
  NumPasses = 1
  InitialPassLength = 9
  FileLen = 3
  Source = "text"
  Kinds = {"labelled"}
  Training = TRUE
  Globals <- Cluster
  ActiveSimulation = FALSE
SPECIFICATION FairSpec
INVARIANTS
  NoNullDereference
  DelayNeverBlocks
PROPERTIES
  NoEarlyReuse
  NoSendAfterShutdown
  Termination
