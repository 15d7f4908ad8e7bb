SPECIFICATION Spec
CONSTANTS
  PageCells = 4
  PagesPerTable = 4
  LastPage = 19
  FirstSlot = 1
  EndSlot = 24
  CNodeUnits = 16
  RetypeFanOut = 2
  TLS_BASE = 10
  STACK = 18
  IPC_BUF = 19
  STACK_PAGES = 2
  Elves <- MCElves
  Memories <- MCMemories
  RootTables <- MCRootTables
  RootImages <- MCRootImages
  FreeSlots = {2, 6, 12, 23}
INVARIANT
  SharedKept
