CONSTANTS
  r1 = r1
  r2 = r2
  n1 = n1
  p1 = p1
  p2 = p2
  l1 = l1
  u1 = u1
  u2 = u2
  u3 = u3
  bot = bot
  admin = admin
  d1 = d1
  d2 = d2
  d3 = d3
  Nil = Nil
  Names = {n1}
  Patterns = {p1, p2}
  Covers <- PatternCovers
  Invalid = {p2}
  Labels = {l1}
  Users = {u1, u2, u3, bot}
  Roles = {admin}
  GlobalUsers = {u1}
  GlobalRoles = {}
  Resources = {r1, r2}
  Specs <- PatternResources
  GlobalClient = TRUE
  WebhookURL = TRUE
  MaxEdits = 3
  MaxFaults = 1
  MaxCrashes = 1
  Deliveries = {d1, d2, d3}
  Delivery <- MixedDeliveries
  Bot = bot
  RoleOf <- OnlyAdmin
SPECIFICATION WebhookSpecification
INVARIANTS
  GateTypeOK
  GlobalUserNotDenied
PROPERTIES
  RefusedOnlyWhilePending
CHECK_DEADLOCK FALSE
