CONSTANTS
  Slots = 2
  MaxPid = 3
  None = None
SPECIFICATION FairScheduler
PROPERTY RoundRobin
