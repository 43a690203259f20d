SPECIFICATION Spec
CONSTANTS
  Addresses <- Memory
  Bytes <- Values
  Contents <- Distinct
  Calls <- OverlapCalls
INVARIANTS
  OverlapIsExact
CHECK_DEADLOCK FALSE
