SPECIFICATION ServiceSpec
CONSTANTS
  Pids = {1}
  Apps = {1}
  NoApp = 0
  AddrMax = 9
  Byte = {0, 1, 2}
  Unmapped = Unmapped
  PageSize = 2
  LowSpan = 4
  Files <- HardDocs
  Base <- HardBase
  Ps2 = {}
  Image <- HardImage
  Faults = {"write"}
  Titles = {"t1"}
  Formats <- OneFormat
  Docs <- HardDocs
  Broken = Broken
  MaxEdits = 2
  TitleOf <- MCTitleOf
  Requests <- Lifetime
CHECK_DEADLOCK FALSE
INVARIANTS  ListedIsPatched
