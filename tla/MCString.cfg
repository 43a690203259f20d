SPECIFICATION Spec
CONSTANTS
  Addresses <- Memory
  Bytes <- Values
  Contents <- AllContents
  Calls <- AllCalls
INVARIANTS
  ForwardIsExact
  BytewiseBackwardIsExact
  ComparesBytes
CHECK_DEADLOCK FALSE
