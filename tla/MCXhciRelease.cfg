CONSTANTS
  MaxPorts = 2
  MaxPolls = 1
  MaxPlugs = 0
  Bars <- MCLowBars
  Rereads = FALSE
SPECIFICATION Spec
PROPERTY EveryCallReturns
CHECK_DEADLOCK FALSE
