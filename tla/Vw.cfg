\* Command lines of every kind: models saved, read again and added up, passes of
\* conjugate gradient, minibatches of LDA, options that are refused.
CONSTANTS
  DefaultRing = 2
  DefaultBits = 1
  MaxBits = 3
  Scenarios <- Alternatives
  Features <- TheFeatures
  Models = {"m", "n", "t", "x"}
  Earlier <- OldModel
SPECIFICATION FairSpec
CHECK_DEADLOCK FALSE
INVARIANTS
  OwnPrediction
  DirectionFromWholePass
  BatchMerged
  LoadedWeights
PROPERTIES
  ModelReplacedWhole
  NbModelKept
  EveryRunEnds
