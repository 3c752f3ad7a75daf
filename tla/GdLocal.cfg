\* Two learners on a pass over labelled and unlabelled examples, in any mix.
CONSTANTS
  NumThreads = 2
  RingSize = 2
  NumPasses = 1
  InitialPassLength = 9
  FileLen = 3
  Source = "text"
  Kinds = {"labelled", "unlabelled"}
  Training = TRUE
  Globals <- Alone
  ActiveSimulation = FALSE
SPECIFICATION FairSpec
INVARIANTS
  TypeOK
  NoAssertFailure
  AccountingExclusive
  SequentialTraining
PROPERTIES
  TrainedInOrder
  ImplementsQueue
  Termination
