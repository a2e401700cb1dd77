CONSTANTS
  Images <- MCImages
  MaxThreads = 3
  MaxCommands = 4
  Capacity = 1
  Supply = 2
  Entries <- MCTree
  Root = "r"
  Matching = {"f", "g", "h", "k"}
  Short = {"x"}
  MaxDepth = 3
  MaxFailures = 2
  MaxSamples = 6
  MaxWorkers = 3
  MaxBin = 3
  Stale = Stale
SPECIFICATION CSpec
INVARIANTS
  TypesOK
  NegativeMade
  PipesWired
  SuccessMeansAll
  SamplesOnce
  SignalsAsReported
PROPERTIES
  WaitsEnd
CHECK_DEADLOCK FALSE
