CONSTANTS
  d1 = d1
  d2 = d2
  d3 = d3
  None = None
  Tasks = {d1, d2}
  Event <- OneThread
  HasClient <- AllClients
  MaxClarifications = 1
  Timeout = 0
  MaxFaults = 1
  MaxCrashes = 0
  MaxDeletes = 1
  MaxSpend = 1
SPECIFICATION Spec
SYMMETRY SameDeliveries
INVARIANTS
  TypeOK
  OneOpenQuestion
  CostNotOverReported
  SandboxHeld
  ClaimNotLeft
  CommentedOnce
  ReplyCountsOnce
PROPERTIES
  AnswersKept
  ReplyReachesQuestion
  TerminalIsFinal
  ImplementsLifecycle
