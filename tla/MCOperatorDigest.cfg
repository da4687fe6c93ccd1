SPECIFICATION OperatorSpec
CONSTANTS
  p1 = p1
  k1 = k1
  k2 = k2
  Pods <- OnePod
  MinReplicas = 0
  MaxReplicas = 1
  TTL = 1
  Window = 1
  MaxTasks = 2
  MaxFaults = 1
  Specs <- MCSpecs
  Profiles = {"i1"}
  ProfileTexts <- MCProfileTexts
  PersonaNames = {"p1"}
  EnvNames = {"E", "T"}
  Managed = {"T"}
  FirstSpec <- MCFirstSpec
  FirstProfile <- MCFirstProfile
  FirstRendered <- MCFirstRendered
  MaxUpsets = 2
  Keepers <- TwoKeepers
  MaxHmacs = 2
  MaxGatewayUpsets = 2
PROPERTIES RestartsAreMeant
CHECK_DEADLOCK FALSE
