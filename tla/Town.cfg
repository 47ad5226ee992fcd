CONSTANTS
  r1 = r1
  n1 = n1
  l1 = l1
  u1 = u1
  u2 = u2
  bot = bot
  admin = admin
  d1 = d1
  d2 = d2
  d3 = d3
  None = None
  Nil = Nil
  Tasks = {d1, d2, d3}
  Event <- TownEvents
  Delivery <- UnderBot
  Echoes = {d3}
  HasClient <- AllClients
  MaxClarifications = 2
  Timeout = 0
  MaxFaults = 0
  MaxCrashes = 1
  MaxDeletes = 0
  MaxSpend = 0
  Names = {n1}
  Patterns = {}
  Covers <- NoPatterns
  Invalid = {}
  Labels = {l1}
  Users = {u1, u2, bot}
  Roles = {admin}
  GlobalUsers = {}
  GlobalRoles = {}
  Resources = {r1}
  Specs <- OwnToken
  GlobalClient = TRUE
  WebhookURL = FALSE
  MaxEdits = 1
  MaxGateFaults = 0
  Bot = bot
  RoleOf <- AllAdmins
  GlobalLogin = bot
  PatLogin = bot
SPECIFICATION TownSpec
INVARIANTS
  OwnQuestionsIgnored
PROPERTIES
  OwnClientOnceServed
