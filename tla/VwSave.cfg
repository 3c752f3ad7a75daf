\* A run over fewer examples than the ring has slots, asked for its model.
CONSTANTS
  DefaultRing = 2
  DefaultBits = 1
  MaxBits = 3
  Scenarios <- Short
  Features <- TheFeatures
  Models = {"m", "n", "t", "x"}
  Earlier <- OldModel
SPECIFICATION Spec
CHECK_DEADLOCK FALSE
INVARIANTS
  SavesModel
