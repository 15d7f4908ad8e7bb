SPECIFICATION Spec
CONSTANTS
  Base = 4
  NMR = 8
  FirstDev = 4
  MaxFd = 4
  PathNames <- MCPaths
  Payloads <- MCPayloads
  StatPayload <- MCStat
  Counts = {4, 13}
  Seeks <- MCSeeks
  Flags = {0, 64}
PROPERTY
  ReplyReturned
