SPECIFICATION Spec
CONSTANTS
  MaxFaults = 5
  MaxPage = 4
  LoadedPages <- MCLoaded
  BrkBase = 2
  MmapBase = 3
  PtSpan = 2
  BadPages <- MCBad
  FreshSlots = 3
  TotalSlots = 5
  Frames = 4
  ChildTcb = "ready"
  ReplyTag = "zero"
  Calls <- MCLiveCalls
  FaultKinds <- MCSyscallVm
  Nested = FALSE
  Wild = FALSE
PROPERTIES MmapFresh
