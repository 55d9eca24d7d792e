CONSTANTS
  Slots = 2
  MaxPid = 3
  None = None
  Data = {d1}
  Capacities = {0, 2}
SPECIFICATION Spec
INVARIANTS
  TypeOK
  NoProcessLost
  ScheduleFindsWork

  
