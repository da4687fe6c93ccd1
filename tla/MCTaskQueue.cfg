SPECIFICATION FairSpec
CONSTANTS
  a1 = a1
  w1 = w1
  w2 = w2
  t1 = t1
  NoTask = NoTask
  Tasks <- OneTask
  Recorded <- OneTask
  Agents <- OneAgent
  Workers <- TwoWorkers
  AgentOf <- MCAgentOf
  Serves <- MCServes
  MaxAttempts = 3
INVARIANTS Exclusive RetryBudget InvocationAgrees
PROPERTIES AttemptRunsOnce LateReportsBounded SettlesForGood RefinesLease
CHECK_DEADLOCK FALSE
