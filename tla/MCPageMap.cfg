CONSTANTS
  PageSize = 4
  Fanout = 2
  NumDescs = 3
  Sizes = {1, 3}
  Gaps = {0, 2}
  FramebufferAt = {0, 22, 62}
  FramebufferSizes = {5, 31}
  Overlaps = FALSE
  Requests <- MCRequests
SPECIFICATION Spec
CHECK_DEADLOCK FALSE
INVARIANTS
  CountedTablesSuffice
  AllAndOnlyIncludedIsMapped
