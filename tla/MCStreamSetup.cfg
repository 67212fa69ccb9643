\* A connect and an accept, sockets dropped, closed and collected around them.
SPECIFICATION Spec
CONSTANTS
  MaxFd = 1
  MaxAddr = 2
  MaxQueue = 1
  MaxNow = 3
  Sec = 1
  Preset = 2
  Kernel <- MCKernel
INVARIANTS OneOwner
PROPERTIES AnswersTrue CallsEnd
CHECK_DEADLOCK FALSE
