SPECIFICATION LoopsSpec
CONSTANTS
  trigger1 = trigger1
  hook1 = hook1
  job1 = job1
  target1 = target1
  target2 = target2
  content1 = content1
  typist1 = typist1
  typist2 = typist2
  skill1 = skill1
  skill2 = skill2
  image1 = image1
  agent1 = agent1
  caller1 = caller1
  NoTrigger = NoTrigger
  Triggers = {trigger1}
  MaxTime = 2
  MaxEdits = 2
  MaxFaults = 2
  MaxCrashes = 1
  Hooks = {hook1}
  Jobs = {job1}
  Targets = {target1, target2}
  Contents = {content1}
  Typists = {typist1, typist2}
  MaxTriggerAsks = 2
  MaxTriggerUpsets = 1
  Skills = {skill1, skill2}
  Images = {image1}
  Agents = {agent1}
  Callers = {caller1}
  Sizes = {1, 2}
  Takes <- TwoUnits
  MaxSkillEdits = 3
  MaxSkillFaults = 1
INVARIANTS SlotsSound RowsCarried
PROPERTIES SlotIsRun LoopsFollow
CHECK_DEADLOCK FALSE
