CONSTANTS
  Size = 4
  Keys = {0, 1, 2}
  None = None
  Samples = {s1, s2}
  Formats <- MCFormats
  Chunks <- MCChunks
  NFft = 3
  Hop = 2
  Tensors <- MCTensors
  MaxOps = 3
  Taps = 3
  Factor = 4
  MaxSlice = 5
  MaxInput = 40
  Vendors = {3034, 4660}
  Frequencies = {0, 4799, 4800, 20000, 353200, 353201, 858993}
  Rates = {0, 44, 45, 640, 641}
  Devices = 2
  Functions = 3
  Places <- MCPlaces
  Errors = {24, 29}
  Spaces <- MCSpaces
  Values <- MCValues
  MaxCalls = 2
  MaxPorts = 3
  MaxPolls = 2
  MaxPlugs = 2
  Bars <- MCBars
  Rereads = TRUE
SPECIFICATION MCSpec
INVARIANTS
  DriversTypeOK
  FramesFitTheWindow
  TensorsStayConsistent
  SlicesDoNotMatter
  InitSucceedsOnceAttached
  ScanIsExact
  AccessesAreExact
  EnumerationIsFair
  NoChangeIsMissed
PROPERTIES
  RingSpec
  WindowSpec
  ResetIsOrderly
  EveryCallReturns
