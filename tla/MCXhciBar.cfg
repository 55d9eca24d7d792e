CONSTANTS
  MaxPorts = 2
  MaxPolls = 1
  MaxPlugs = 0
  Bars <- MCBars
  Rereads = TRUE
SPECIFICATION Spec
INVARIANT BaseIsTheWindow
