CONSTANTS
  PageSize = 128
  MapEntrySize = 40
  TreeEntrySize = 64
  TreeLevelSize = 32
  RangeSize = 32
  Alignment = 16
  InPlace = 8
  MaxDescriptors = 2
  Sizes = {9, 12}
  Base = 0
  LargeSizes = {}
  LargeGaps = {}
  EfiMaps <- MCEfiMaps
SPECIFICATION BootSpec
CHECK_DEADLOCK FALSE
INVARIANT
  UsableMemoryIsManaged
