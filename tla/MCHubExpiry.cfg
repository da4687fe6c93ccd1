SPECIFICATION HubSpec
CONSTANTS
  a1 = a1
  c1 = c1
  c2 = c2
  p0 = p0
  p1 = p1
  p2 = p2
  ann = ann
  bob = bob
  legacy = legacy
  crew = crew
  res1 = res1
  s1 = s1
  s2 = s2
  r1 = r1
  r2 = r2
  e1 = e1
  e2 = e2
  v1 = v1
  v2 = v2
  Staff = {a1}
  Bases = {"i1", "i2"}
  Tools = {"n1", "m1"}
  McpTools = {"m1"}
  Orders <- MCOrders
  Toolsets = {{"m1"}}
  Clerks = {c1, c2}
  MaxOrders = 4
  MaxDeskLosses = 1
  Servers = {"s", "t"}
  Urls = {1, 2}
  Profiles = {"i1"}
  Adopters = {a1}
  Helpers = {c1, c2}
  MaxServerRequests = 4
  PersonaIds = {p0, p1, p2}
  Template = p0
  Texts = {1, 2}
  Clients = {c1, c2}
  MaxPersonaEdits = 3
  MaxPersonaFaults = 1
  Users = {ann, bob}
  Admins = {ann}
  Groups = {legacy, crew}
  Legacy = legacy
  Resources = {res1}
  Standing = {res1}
  Sessions = {s1, s2}
  CacheTTL = 1
  PersistTTL = 1
  LoadTicks = 1
  MaxRequests = 3
  MaxAccessFaults = 1
  Runs = {r1, r2}
  Events = {e1}
  EventOf <- OneEvent
  Ranges = {2}
  Retention = 1
  ConversationRetention = 1
  MaxClock = 2
  MaxHistoryFaults = 1
  MaxMessages = 2
  EventIds = {e1, e2}
  Viewers = {v1, v2}
  Grain = 2
  Stride = 4
  Window = 8
  MaxPoints = 2
  TTL = 1
  LogRetention = 9
  MaxInstant = 10
  MaxRows = 2
INVARIANTS ExpireTogether
CHECK_DEADLOCK FALSE
