\* Two workers train on a labelled input through a ring of two slots, in
\* passes that grow from one example.
CONSTANTS
  NumThreads = 2
  RingSize = 2
  NumPasses = 1
  InitialPassLength = 1
  FileLen = 4
  Source = "text"
  Kinds = {"labelled"}
  Training = TRUE
SPECIFICATION FairSpec
INVARIANTS
  TypeOK
  NoAssertFailure
  NextIsReady
  HeldIsStable
  NoExampleSkipped
  WholeInputRead
PROPERTIES
  NoEarlyReuse
  ImplementsQueue
  Termination
