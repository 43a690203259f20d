SPECIFICATION MCSpec
CONSTANTS
  MaxCommands = 3
  MaxResends = 1
  Keys <- Set2Keys
  ScanTables <- Set2Tables
  GlobalTable = "global"
  ByteExtendCodes <- Set2ByteExtendCodes
  SpecialSequences <- Set2SpecialSequences
  KeysPerByte <- Set2KeysPerByte
  UnicodeTable <- USLayout
  InputCodes <- AllCodes
INVARIANTS
  TypeOK
  QueueBusy
  SequenceInBounds
  ModifiersMatchKeys
PROPERTIES
  QueueIsFifo
  EveryResendIsCounted
