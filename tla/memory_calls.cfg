SPECIFICATION MemorySpec
CONSTANTS
  StepLimit = 4
  MaxCalls = 2
  Levels = 3
  Fan = 2
  Spans <- MCSpans
  AddrMax = 31
  PhysMax = 15
  Layouts <- MCLayouts
  MaxSize = 8
  Spots <- MCSpots
  Faults <- AllFaults
INVARIANTS TypeOK RegistersRestored  TrueMeansCave PrefixCopied  CaveIsTheRange
PROPERTY CallEnds
