SPECIFICATION RoutingSpec
CONSTANTS
  e1 = e1
  e2 = e2
  a1 = a1
  a2 = a2
  r1 = r1
  r2 = r2
  k = k
  l = l
  s1 = s1
  m1 = m1
  m2 = m2
  n1 = n1
  n2 = n2
  NoEvent = NoEvent
  NoAgent = NoAgent
  Events <- TwoEvents
  Agents <- TwoAgents
  Routers <- TwoRouters
  MaxFaults = 2
  MaxCrashes = 1
  Entries = {e1}
  Sources = {k}
  SourceOf <- OfConnector
  Asks <- FiveAsks
  Takers = {a1, a2}
  MaxFeedFaults = 2
  MaxPages = 1
  Crew = {a1, a2}
  Titles = {n1, n2}
  Talks = {s1}
  Notes = {m1, m2}
  IsUser <- FirstByUser
  Reach <- SecondHears
  MaxTalkChanges = 2
  MaxTalkFaults = 2
  TriggerCount = 3
  Sheets <- MCSheets
  Deliveries <- MCDeliveries
  EventHeaders = {"X-A-Event", "X-B-Event"}
  RegexMatches = {}
INVARIANTS NoStrayInvocation PassesSound TellingSound MatchingSound
PROPERTIES EventuallyRouted
CHECK_DEADLOCK FALSE
