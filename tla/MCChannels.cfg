SPECIFICATION ChannelsSpec
CONSTANTS
  k1 = k1
  a1 = a1
  c1 = c1
  c2 = c2
  r1 = r1
  r2 = r2
  NoChannel = NoChannel
  Kind <- MCKind
  Channels <- FourChannels
  Clients <- TwoClients
  MaxWalkDepth = 2
  k = k
  g0 = g0
  g = g
  e1 = e1
  e2 = e2
  Labels = {k}
  Inboxes = {g, g0}
  Events = {e1, e2}
  StreamOf <- TheStreams
  Bundle = {k, g}
  MaxChurn = 3
  MaxRegistryFaults = 1
  x1 = x1
  x2 = x2
  o = o
  b1 = b1
  b3 = b3
  g1 = g1
  g2 = g2
  d1 = d1
  d2 = d2
  Grouping = {x1, x2}
  Provisioned = {o}
  Edges = {b1, b3}
  From <- Heads
  To <- Tails
  Owners = {g1, g2}
  Desks = {d1, d2}
  GroupsOf <- MCGroupsOf
  Chiefs = {d2}
  MaxDeskRequests = 4
  MaxDeskFaults = 1
  source = source
  sink = sink
  bundle = bundle
  Sources = {source}
  Sinks = {sink}
  Bundles = {bundle}
  MaxPageChanges = 2
  MaxPageFaults = 1
SYMMETRY Symmetric
INVARIANTS Acyclic ViewsAgree BirthIsOwn PagesTold
PROPERTIES BridgesKept RegistryCatchesUp OwnersHold
CHECK_DEADLOCK FALSE
