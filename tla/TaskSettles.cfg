CONSTANTS
  d1 = d1
  d2 = d2
  d3 = d3
  None = None
  Tasks = {d1, d2}
  Event <- OneThread
  HasClient <- AllClients
  MaxClarifications = 1
  Timeout = 0
  MaxFaults = 1
  MaxCrashes = 1
  MaxDeletes = 0
  MaxSpend = 0
SPECIFICATION FairSpec
INVARIANTS
  SandboxHeld
  CommentedOnce
  KeyNotLost
PROPERTIES
  ImplementsLifecycle
  EveryTaskSettles
