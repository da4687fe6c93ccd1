SPECIFICATION RunnerSpec
CONSTANTS
  a1 = a1
  a2 = a2
  p1 = p1
  p2 = p2
  t1 = t1
  t2 = t2
  Agents <- TwoAgents
  Polls <- TwoPolls
  Tasks <- TwoTasks
  For <- SamePolls
  AgentOf <- MCAgentOf
  PoolSize = 3
  MaxTurns = 3
  MaxMessages = 2
  Work <- ThreeTasks
  Environment <- MCEnvironment
  Denylist = {"AGENT_NAME"}
  MinSecret = 2
  Pieces <- MCPieces
  BlockCaps = {1, 2, 4, 5}
  MessageFloor = 6
  MaxChars = 8
  MaxBlocks = 2
INVARIANTS PollsSound AckIsEarned TurnsAreOwn OneAtATime PayloadsHold
PROPERTIES PollReturns TaskDelivered TurnsEnd
CHECK_DEADLOCK FALSE
