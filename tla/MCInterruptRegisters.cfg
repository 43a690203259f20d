CONSTANTS
  Lines = {1, 7, 12}
  Exceptions = {2, 14, 21}
  MaxRequests = 1
  MaxExceptions = 0
SPECIFICATION Spec
CHECK_DEADLOCK FALSE
INVARIANT
  CallerSavedAreKept
