-------------------------- MODULE PS2ScanCodeSet2 --------------------------
(***************************************************************************)
(* Scan code set 2 as the kernel tabulates it                              *)
(* (include/DexprOS/Drivers/Keyboard/PS2KeyboardScanCodes.h) and the US    *)
(* layout (src/Drivers/Keyboard/USKeyboardLayout.c), for the keys that the *)
(* driver treats in different ways and a few that share bytes with the     *)
(* special sequences.  The rows left out differ from these in names only.  *)
(***************************************************************************)
EXTENDS Naturals, Sequences, TLC

(* g_scanCode2SingleByteSet and g_scanCode2TwoBytesSet: byte -> key.  The  *)
(* release tables hold the same keys at the same bytes.                    *)
SingleByteKeys ==
  17 :> "LEFT_ALT" @@ 18 :> "LEFT_SHIFT" @@ 20 :> "LEFT_CONTROL" @@ 22 :> "ONE" @@
  28 :> "A" @@ 74 :> "SLASH" @@ 88 :> "CAPS_LOCK" @@ 89 :> "RIGHT_SHIFT" @@
  90 :> "ENTER" @@ 102 :> "BACKSPACE" @@ 105 :> "KEYPAD_1" @@ 119 :> "NUM_LOCK" @@
  124 :> "KEYPAD_MULTIPLY" @@ 126 :> "SCROLL_LOCK"

TwoBytesKeys ==
  17 :> "RIGHT_ALT" @@ 20 :> "RIGHT_CONTROL" @@ 74 :> "SLASH" @@
  90 :> "KEYPAD_ENTER" @@ 105 :> "END"

Set2Tables == {"global", "E0", "F0", "E0F0"}

WithAction(keys, act) == [c \in DOMAIN keys |-> [key |-> keys[c], action |-> act]]

Set2KeysPerByte ==
  [global |-> WithAction(SingleByteKeys, "PRESSED"),
   F0     |-> WithAction(SingleByteKeys, "RELEASED"),
   E0     |-> WithAction(TwoBytesKeys, "PRESSED"),
   E0F0   |-> WithAction(TwoBytesKeys, "RELEASED")]

Set2ByteExtendCodes ==
  [global |-> (224 :> "E0" @@ 240 :> "F0"),
   E0     |-> (240 :> "E0F0"),
   F0     |-> <<>>,
   E0F0   |-> <<>>]

PauseSequence ==
  [bytes |-> <<225, 20, 119, 225, 240, 20, 240, 119>>, key |-> "PAUSE", action |-> "PRESSED_RELEASED"]
PrtScnPressedSequence ==
  [bytes |-> <<18, 224, 124>>, key |-> "PRINT_SCREEN", action |-> "PRESSED"]
PrtScnReleaseSequence ==
  [bytes |-> <<124, 224, 240, 18>>, key |-> "PRINT_SCREEN", action |-> "RELEASED"]

Set2SpecialSequences ==
  [global |-> {PauseSequence},
   E0     |-> {PrtScnPressedSequence},
   F0     |-> {},
   E0F0   |-> {PrtScnReleaseSequence}]

Set2Keys ==
  {"UNKNOWN", "PAUSE", "PRINT_SCREEN"}
    \cup {SingleByteKeys[c] : c \in DOMAIN SingleByteKeys}
    \cup {TwoBytesKeys[c] : c \in DOMAIN TwoBytesKeys}

(* Rows of g_conversionTableUS: type and the four codes. *)
Entry(t, s, u, a, au) ==
  [type |-> t, codes |-> [standard |-> s, upperCase |-> u, altGr |-> a, altGrUpperCase |-> au]]

USLayout ==
  [k \in Set2Keys |->
     CASE k = "A" -> Entry("CAPS_LOCK_AFFECTED", 97, 65, 0, 0)
       [] k = "ONE" -> Entry("CAPS_LOCK_UNAFFECTED", 49, 33, 49, 33)
       [] k = "SLASH" -> Entry("CAPS_LOCK_UNAFFECTED", 47, 63, 47, 63)
       [] k = "KEYPAD_MULTIPLY" -> Entry("CAPS_LOCK_UNAFFECTED", 42, 42, 42, 42)
       [] k = "KEYPAD_1" -> Entry("NUMBERPAD", 49, 49, 49, 49)
       [] k \in {"ENTER", "KEYPAD_ENTER"} -> Entry("ENTER", 10, 10, 10, 10)
       [] OTHER -> Entry("INVALID", 0, 0, 0, 0)]
=============================================================================
