SPECIFICATION FairSpec
CONSTANTS
  a1 = a1
  w1 = w1
  w2 = w2
  t1 = t1
  NoTask = NoTask
  Tasks <- OneTask
  Recorded <- OneTask
  Agents <- OneAgent
  Workers <- OneWorker
  AgentOf <- MCAgentOf
  Serves <- MCServes
  MaxAttempts = 2
PROPERTIES InvocationsComplete
CHECK_DEADLOCK FALSE
