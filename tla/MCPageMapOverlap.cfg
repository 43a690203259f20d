CONSTANTS
  PageSize = 4
  Fanout = 2
  NumDescs = 2
  Sizes = {1, 3}
  Gaps = {0, 2}
  FramebufferAt = {6, 12}
  FramebufferSizes = {5, 31}
  Overlaps = TRUE
  Requests <- MCRequests
SPECIFICATION Spec
CHECK_DEADLOCK FALSE
INVARIANT
  CountedTablesSuffice
