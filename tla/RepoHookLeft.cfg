CONSTANTS
  r1 = r1
  r2 = r2
  r3 = r3
  n1 = n1
  n2 = n2
  p1 = p1
  l1 = l1
  u1 = u1
  u2 = u2
  admin = admin
  Nil = Nil
  Names = {n1, n2}
  Patterns = {p1}
  Covers <- PatternCoversAll
  Invalid = {}
  Labels = {l1}
  Users = {u1, u2}
  Roles = {admin}
  GlobalUsers = {}
  GlobalRoles = {}
  Resources = {r1}
  Specs <- OneName
  GlobalClient = TRUE
  WebhookURL = TRUE
  MaxEdits = 2
  MaxFaults = 0
  MaxCrashes = 0
SPECIFICATION FairRepositories
PROPERTIES
  HookAccountedFor
CHECK_DEADLOCK FALSE
