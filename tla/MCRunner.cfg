SPECIFICATION Spec
CONSTANTS
  PageCells = 4
  PagesPerTable = 5
  LastPage = 24
  FirstSlot = 1
  EndSlot = 22
  CNodeUnits = 16
  RetypeFanOut = 2
  LOAD_BASE = 5
  TLS_BASE = 12
  TRAMPOLINE = 13
  STACK = 23
  IPC_BUF = 24
  STACK_EXTRA_PAGES = 2
  BigUnits = 16
  BusyboxEntry = 20
  PatchCells = {2, 5}
  PageBytes = 4096
  Elves <- MCElves
  ArgLists <- MCArgLists
  Memories <- MCMemories
  RootTables <- MCRootTables
  RootImages <- MCRootImages
INVARIANTS
  TypeOK
  ImageLoaded
  StartedComplete
  FailsOnlyWhenShort
  EntryContract
