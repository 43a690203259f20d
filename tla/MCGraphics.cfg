CONSTANTS
  Width = 2
  Height = 2
  Stride = 3
  GopFormats = {"RGB", "BGR", "BitMask", "BltOnly"}
  Background <- Teal
  Firmware <- Black
  ThreadCalls <- MCThreadCalls
  HandlerCalls <- MCHandlerCalls
SPECIFICATION Spec
CHECK_DEADLOCK FALSE
INVARIANTS
  DrawsWhatIsAsked
  ScreenCatchesUp
