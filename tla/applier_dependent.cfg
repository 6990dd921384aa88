SPECIFICATION Spec
CONSTANTS
  Pids = {1}
  Apps = {a1}
  NoApp = NoApp
  AddrMax = 15
  Byte = {0, 1, 2}
  Unmapped = Unmapped
  PageSize = 4
  LowSpan = 4
  Files <- MasteredFiles
  Base <- MCBase
  Ps2 = {}
  Image <- MCImage
  Faults = {}
INVARIANT DisableRestoresOff
