CONSTANTS
  Broken = Broken
  MaxChanges = 3
  PerPage = 2
  MaxCommentsPerThread = 1
  MaxThread = 2
  InThread <- ReviewThread
  ByBot <- OneByBot
  MaxPosted = 4
  Scale = 3
  MaxRounds = 1
  MaxRuns = 2
  MaxOutput = 4
  MaxCost = 2
SPECIFICATION FairPassSpec
INVARIANTS
  PassTypeOK
  ReadinessSeen
  PodWasReady
  FetchedInOrder
  FetchBounded
  DecidedByLastObject
  EstimateClose
PROPERTIES
  ThreadComplete
  PassEnds
CHECK_DEADLOCK FALSE
