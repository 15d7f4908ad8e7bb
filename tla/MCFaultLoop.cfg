SPECIFICATION Spec
CONSTANTS
  MaxFaults = 3
  MaxPage = 4
  LoadedPages <- MCLoaded
  BrkBase = 2
  MmapBase = 3
  PtSpan = 2
  BadPages <- MCBad
  FreshSlots = 3
  TotalSlots = 5
  Frames = 2
  ChildTcb = "ready"
  ReplyTag = "zero"
  Calls <- AllCalls
  FaultKinds <- MCAllKinds
  Nested = TRUE
  Wild = TRUE
INVARIANTS TypeOK OneRunner NeverStuck UnwrapSafe
