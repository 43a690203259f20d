CONSTANTS
  InitialConfigs <- MCInitialConfigs
  ResetConfigs <- MCResetConfigs
  DeviceBytes <- MCDeviceBytes
  MaxDeviceBytes = 3
SPECIFICATION Spec
CHECK_DEADLOCK FALSE
INVARIANTS
  AnswersAreOwn
  PortsAreSetUp
PROPERTY
  InitialisationEnds
