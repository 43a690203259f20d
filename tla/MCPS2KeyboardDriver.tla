------------------------ MODULE MCPS2KeyboardDriver ------------------------
(* The driver fed arbitrary bytes, with the kernel's scan code tables. *)
EXTENDS PS2KeyboardDriver, PS2ScanCodeSet2

(* Answers and errors of the keyboard, and two lock keys that queue LED    *)
(* commands between them.                                                  *)
CommandCodes == {0, 238, 170, 252, 250, 254, 240, 88, 119}

(* Every prefix, a modifier of both sides, and the bytes that              *)
(* the print screen sequences share with ordinary keys.                    *)
ExtendedCodes == {224, 240, 225, 18, 20, 124}

(* The pause sequence, cut short by prefixes and by its own bytes. *)
PauseCodes == {225, 20, 119, 240, 224}

AllCodes == CommandCodes \cup ExtendedCodes \cup PauseCodes

(* A behaviour has bytes of one of the sets: keys that queue no commands   *)
(* need no answers, and what is queued plays no part in decoding.          *)
VARIABLE codes

MCInit == Init /\ codes \in {CommandCodes, ExtendedCodes, PauseCodes}
MCNext == UNCHANGED codes /\ \E code \in codes : ProcessKeyboardInterrupt(code)
MCSpec == MCInit /\ [][MCNext]_<<vars, codes>>
=============================================================================
