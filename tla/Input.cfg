\* Sessions on one disk: caches written, read, rebuilt, masked, killed.
CONSTANTS
  BufferSize = 2
  Newline = 0
  WordBits = 6
  DigitBits = 2
  IntSize = 3
  MaxBits = 3
  Namespaces = {1, 2, 3}
  Anonymous = 1
  NamespaceHash <- Hashes
  FltMax = 99
  NaN = 98
  ConstantNamespace = 3
  Constant = 5
  QuadraticConstant = 2
  Scenarios <- AllScenarios
  Line <- TheLines
  CacheNames = {"a", "b"}
  DefaultBits = 3
SPECIFICATION FairSpec
INVARIANTS
  Transparent
  WholePass
  CacheWhole
  SortedWhenClaimed
  ThreadsShareOut
  ReadsOpenFile
  OutFits
PROPERTIES
  GramsWithinSkips
  ImplementsStream
  SessionsEnd
