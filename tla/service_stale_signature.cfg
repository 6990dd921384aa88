SPECIFICATION ServiceSpec
CONSTANTS
  Pids = {1, 2}
  Apps = {1, 2}
  NoApp = 0
  AddrMax = 7
  Byte = {0, 1, 2}
  Unmapped = Unmapped
  PageSize = 4
  LowSpan = 4
  Files <- PlainDocs
  Base <- MCBase
  Ps2 = {}
  Image <- MCImage
  Faults = {}
  Titles = {"t1"}
  Formats <- TwoFormats
  Docs <- PlainDocs
  Broken = Broken
  MaxEdits = 3
  TitleOf <- MCTitleOf
  Requests <- Refreshes
CHECK_DEADLOCK FALSE
INVARIANT UnchangedIsLoaded
