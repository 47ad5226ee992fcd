CONSTANTS
  r1 = r1
  r2 = r2
  r3 = r3
  n1 = n1
  n2 = n2
  p1 = p1
  l1 = l1
  u1 = u1
  u2 = u2
  admin = admin
  Nil = Nil
  Names = {n1, n2}
  Patterns = {p1}
  Covers <- PatternCoversAll
  Invalid = {}
  Labels = {l1}
  Users = {u1, u2}
  Roles = {admin}
  GlobalUsers = {}
  GlobalRoles = {}
  Resources = {r1, r2, r3}
  Specs <- ThreeResources
  GlobalClient = TRUE
  WebhookURL = TRUE
  MaxEdits = 3
  MaxFaults = 1
  MaxCrashes = 1
SPECIFICATION FairRepositories
INVARIANTS
  RepositoryTypeOK
  AllowlistCurrent
  RecordedHookExists
PROPERTIES
  AllowlistConverges
  RepositoriesServed
CHECK_DEADLOCK FALSE
