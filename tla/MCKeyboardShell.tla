-------------------------- MODULE MCKeyboardShell -------------------------
(* A keyboard that follows scan code set 2, and a shell with room for      *)
(* three characters on its line.                                           *)
EXTENDS KeyboardShell, PS2ScanCodeSet2

OneByteKeys == {SingleByteKeys[c] : c \in DOMAIN SingleByteKeys}
CodeOf(keys, k) == CHOOSE c \in DOMAIN keys : keys[c] = k

Set2MakeCode ==
  [k \in Set2Keys \ {"UNKNOWN"} |->
     CASE k = "PAUSE" -> <<225, 20, 119, 225, 240, 20, 240, 119>>
       [] k = "PRINT_SCREEN" -> <<224, 18, 224, 124>>
       [] k \in OneByteKeys -> <<CodeOf(SingleByteKeys, k)>>
       [] OTHER -> <<224, CodeOf(TwoBytesKeys, k)>>]

Set2BreakCode ==
  [k \in Set2Keys \ {"UNKNOWN"} |->
     CASE k = "PAUSE" -> <<>>
       [] k = "PRINT_SCREEN" -> <<224, 240, 124, 224, 240, 18>>
       [] k \in OneByteKeys -> <<240, CodeOf(SingleByteKeys, k)>>
       [] OTHER -> <<224, 240, CodeOf(TwoBytesKeys, k)>>]

(* Bytes to the keyboard garbled, with a lock and a special sequence that  *)
(* begins with an extended code; typing with modifiers of both sides;      *)
(* typing with a lock; editing, and the pause sequence.                    *)
MCSessions ==
  {[keys |-> {"PRINT_SCREEN", "CAPS_LOCK"}, presses |-> 2, waiting |-> 1, faults |-> 1],
   [keys |-> {"CAPS_LOCK"}, presses |-> 1, waiting |-> 1, faults |-> 2],
   [keys |-> {"ONE", "LEFT_SHIFT", "RIGHT_SHIFT", "RIGHT_CONTROL"}, presses |-> 3, waiting |-> 0, faults |-> 0],
   [keys |-> {"A", "LEFT_SHIFT", "CAPS_LOCK"}, presses |-> 3, waiting |-> 0, faults |-> 0],
   [keys |-> {"A", "BACKSPACE", "ENTER", "PAUSE"}, presses |-> 3, waiting |-> 0, faults |-> 0]}

KeyCaps ==
  [k \in {"A", "ONE"} |->
     IF k = "A" THEN [plain |-> "a", shifted |-> "A", letter |-> TRUE]
                ELSE [plain |-> "1", shifted |-> "!", letter |-> FALSE]]

Symbols == 10 :> "NL" @@ 97 :> "a" @@ 65 :> "A" @@ 49 :> "1" @@ 33 :> "!"
Widths == [c \in {"a", "A", "1", "!", "?", ">", "NUL"} |-> IF c = "NUL" THEN 0 ELSE 1]
Prompt == <<">">>
UnknownCommand == <<"?", "NL">>
=============================================================================
