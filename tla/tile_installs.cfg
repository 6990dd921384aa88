SPECIFICATION FairSpec
CONSTANTS
  Builds = {b1, b2}
  NoBuild = none
  MaxChanges = 2
  MaxFaults = 3
INVARIANTS OnlyWholeAssetsRegistered IdenticalUntouched EndsProperly
PROPERTY TileConverges
