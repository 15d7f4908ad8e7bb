SPECIFICATION FairSpec
CONSTANTS
  MaxFaults = 5
  MaxPage = 6
  LoadedPages <- MCLoaded
  BrkBase = 2
  MmapBase = 3
  PtSpan = 2
  BadPages <- MCBad
  FreshSlots = 4
  TotalSlots = 6
  Frames = 5
  ChildTcb = "absent"
  ReplyTag = "zero"
  Calls <- MCMemCalls
  FaultKinds <- MCSyscallVm
  Nested = FALSE
  Wild = TRUE
INVARIANTS NoDrain StoppedMeansStopped
PROPERTIES PageFaultEnds
