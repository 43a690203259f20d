CONSTANTS
  PageSize = 128
  MapEntrySize = 72
  TreeEntrySize = 64
  TreeLevelSize = 32
  RangeSize = 32
  Alignment = 16
  InPlace = 8
  MaxDescriptors = 3
  Sizes = {2, 9}
  Base = 1
  LargeSizes = {1, 130}
  LargeGaps = {0, 61}
  EfiMaps <- MCEfiMaps
SPECIFICATION BootSpec
CHECK_DEADLOCK FALSE
INVARIANTS
  MapDescribesMemory
  BuffersAreDisjoint
  CountsAreExact
  BlocksSummarisePages
  OnlyFreeMemoryIsOffered
PROPERTY
  MemoryIsSetUp
