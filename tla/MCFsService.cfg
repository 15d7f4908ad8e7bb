SPECIFICATION Spec
CONSTANTS
  Paths <- MCTwoPaths
  Root = "/"
  StoreCap = 2
  MaxFd = 4
  MaxSize = 1
  MaxOff = 1
  Counts <- MCOne
  Requests <- MCAll
INVARIANTS TypeOK StoresMatch
PROPERTIES OpenFilesSpec
