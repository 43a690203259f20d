SPECIFICATION ShellSpec
CONSTANTS
  MaxCommands = 16
  MaxResends = 1
  Keys <- Set2Keys
  ScanTables <- Set2Tables
  GlobalTable = "global"
  ByteExtendCodes <- Set2ByteExtendCodes
  SpecialSequences <- Set2SpecialSequences
  KeysPerByte <- Set2KeysPerByte
  UnicodeTable <- USLayout
  InputCodes = {}
  MakeCode <- Set2MakeCode
  BreakCode <- Set2BreakCode
  Sessions <- MCSessions
  RingSize = 9
  MaxCommand = 2
  Width = 4
  ScreenLines = 4
  AdvanceX <- Widths
  PromptText <- Prompt
  ErrorText <- UnknownCommand
  Builtins = {}
  Symbol <- Symbols
  KeyCap <- KeyCaps
INVARIANTS
  KeyboardIsConfigured
  KeyStatesMatchUser
  LocksCountPresses
  LineIsWhatWasTyped
PROPERTIES
  EventuallyIdle
CHECK_DEADLOCK FALSE
