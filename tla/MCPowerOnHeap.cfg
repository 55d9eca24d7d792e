CONSTANTS
  Entries = 512
  KernelPages <- MCKernelPages
  BootPage = 7
  StackPage = 143
  Left = "left"
  Raisable <- MCRaisable
  None = None
  Devices = 1
  Functions = 3
  HeapStart = 33
  HeapSize = 100
  Null = Null
  FrameCount = 8
  DeviceVector <- MCDeviceVector
  TestVector <- MCTestVector
  TestString <- MCTestString
  LongString <- MCLongString
  TestBox <- MCTestBox
SPECIFICATION Spec
INVARIANT HeapReadyBeforeUse
