CONSTANTS
  d1 = d1
  d2 = d2
  d3 = d3
  None = None
  Tasks = {d1}
  Event <- OneIssue
  HasClient <- AllClients
  MaxClarifications = 1
  Timeout = 1
  MaxFaults = 0
  MaxCrashes = 0
  MaxDeletes = 0
  MaxSpend = 0
SPECIFICATION Spec
PROPERTIES
  TimeoutNotEarly
