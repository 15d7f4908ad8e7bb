SPECIFICATION Spec
CONSTANTS
  PageCells = 4
  LastPage = 8
  MMAP_BASE = 1
  EXEC_BASE = 3
  EXEC_STACK = 5
  HEAP = 7
  Programs <- MCPrograms
  Buffers <- MCBuffers
  Breaks = {27, 34}
  MmapArgs = {0, 14}
  Lengths = {5}
  Faults = {6}
  MaxExecs = 1
INVARIANTS
  TypeOK
  Coherent
PROPERTIES
  TrapsRecognised
  FreeArea
  AddressSpaceSpec
