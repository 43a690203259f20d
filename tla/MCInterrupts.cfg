CONSTANTS
  Lines = {1, 7, 12}
  Exceptions = {2, 14, 21}
  MaxRequests = 3
  MaxExceptions = 2
SPECIFICATION Spec
CHECK_DEADLOCK FALSE
INVARIANTS
  InServiceIsHandled
  HandlersDoNotNest
  ReturnsAsItCame
PROPERTIES
  PanicIsFinal
  RequestsAreServed
