CONSTANTS
  MaxCheats = 3
  MaxPatches = 3
  MaxAuthors = 2
  FirstCapacity = 1
  MaxPatchBytes = 2
  HexDigits = {"a", "b"}
  Keystone = TRUE
  Missing = Missing
  Faults = {"memory", "file"}
  Docs <- AllDocs
SPECIFICATION Spec
INVARIANTS OwnsExactly WithinLimits  
