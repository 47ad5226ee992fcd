CONSTANTS
  d1 = d1
  d2 = d2
  d3 = d3
  None = None
  Tasks = {d1}
  Event <- OneIssue
  HasClient <- AllClients
  MaxClarifications = 1
  Timeout = 0
  MaxFaults = 0
  MaxCrashes = 1
  MaxDeletes = 0
  MaxSpend = 0
SPECIFICATION FairSpec
PROPERTIES
  SandboxReleased
