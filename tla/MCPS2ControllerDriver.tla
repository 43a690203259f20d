----------------------- MODULE MCPS2ControllerDriver -----------------------
(* Firmware that leaves both ports on, with translation, or all off; self  *)
(* tests that reset to ports on or off; devices that send 0xAA (a test     *)
(* passed), 0xFA (an acknowledgement) or 0x55.                             *)
EXTENDS PS2ControllerDriver

MCInitialConfigs == {{0, 1, 6}, {4, 5}, {0, 2, 5, 6}}
MCResetConfigs == {{0, 1}, {4, 5, 6}}
MCDeviceBytes == {{1, 3, 5, 7}, {1, 3, 4, 5, 6, 7}, {0, 2, 4, 6}}
=============================================================================
