SPECIFICATION Spec
CONSTANTS
  RingSize = 9
  MaxCommand = 3
  AdvanceX <- Widths
  PromptText <- Prompt
  BootText <- Banner
  ErrorText <- Unknown
  Builtins <- Commands
  TypedChars <- TypedKeys
  Sessions <- MCSessions
INVARIANTS
  CommandIsVisible
  ScreenShowsText
PROPERTIES
  ImplementsTerminal
CHECK_DEADLOCK FALSE
