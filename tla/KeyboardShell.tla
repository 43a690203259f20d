--------------------------- MODULE KeyboardShell ---------------------------
(***************************************************************************)
(* The user, the keyboard, its driver and the shell: what the driver       *)
(* passes on in an interrupt is handled by the shell before the interrupt  *)
(* is over (the calls of DexprOS_ShellKeyboardKeyEvent and                 *)
(* DexprOS_ShellKeyboardCharacterEvent in PS2KeyboardDriver.c).  The       *)
(* prompt is up from the start; keys that race its activation are the      *)
(* matter of Shell.                                                        *)
(***************************************************************************)
EXTENDS PS2KeyboardSystem

LOCAL INSTANCE SequencesExt

CONSTANTS
  RingSize, MaxCommand, Width, ScreenLines, AdvanceX,  \* of the shell
  PromptText, ErrorText, Builtins,
  Symbol,      \* codepoint -> character of the shell
  KeyCap       \* key -> [plain, shifted, letter], what is printed on it

VARIABLES
  sh,          \* the shell
  line         \* what the user means to be on the command line

S == INSTANCE Shell WITH
       BootText <- <<>>, TypedChars <- {}, Sessions <- {},
       boot <- <<>>, early <- 0, torn <- {}, eventsLeft <- 0,
       session <- [width |-> Width, height |-> ScreenLines]

shellVars == <<sysVars, sh, line>>

(* DexprOS_ShellActivatePrompt. *)
WithPrompt == S!FlushStdOut(S!Puts([S!Created EXCEPT !.enabled = TRUE], PromptText))

(* The two callbacks of the shell. *)
Deliver(s, event) ==
  CASE event.type = "character" -> S!KeyboardCharacterEvent(s, Symbol[event.code])
    [] event.type = "key" /\ event.key = "BACKSPACE" /\ event.state \in {"PRESSED", "REPEAT"} ->
         S!Backspace(s)
    [] OTHER -> s

-----------------------------------------------------------------------------
(* What the user expects of a key, as the keys are now: a key cap's        *)
(* character, nothing with Control or Alt, and a letter in upper case with *)
(* either Shift or Caps Lock.                                              *)
CapsLockOn == "CAPS_LOCK" \in oddPresses \cup held

Expected(text, k) ==
  LET shift == held \cap ShiftKeys # {}
      upper == IF KeyCap[k].letter THEN shift # CapsLockOn ELSE shift
      plain == held \cap (ControlKeys \cup {"LEFT_ALT"}) = {}
  IN  CASE k = "ENTER" -> <<>>
        [] k = "BACKSPACE" -> SubSeq(text, 1, Len(text) - 1)
        [] k \in DOMAIN KeyCap /\ plain /\ Len(text) < MaxCommand ->
             Append(text, IF upper THEN KeyCap[k].shifted ELSE KeyCap[k].plain)
        [] OTHER -> text

ShellInit == SystemInit /\ sh = WithPrompt /\ line = <<>>

KeyboardReceives ==
  (DeviceReceive \/ DeviceReceiveGarbled) /\ UNCHANGED <<sh, line>>
UserTypes(k) ==
  (Press(k) \/ Repeat(k)) /\ line' = Expected(line, k) /\ UNCHANGED sh
UserReleases(k) == Release(k) /\ UNCHANGED <<sh, line>>
InterruptReachesShell ==
  Interrupt /\ sh' = FoldLeft(Deliver, sh, events') /\ UNCHANGED line

ShellNext ==
  \/ KeyboardReceives
  \/ \E k \in session.keys : UserTypes(k) \/ UserReleases(k)
  \/ InterruptReachesShell

ShellSpec == ShellInit /\ [][ShellNext]_shellVars /\ SystemFairness

-----------------------------------------------------------------------------
(* Once the keyboard's bytes are delivered, the line that Enter will run   *)
(* is what the user typed, at the end of what is visible: with modifiers   *)
(* of either side pressed and released in any order, locks, repeats,       *)
(* backspace and a full line, and with answers to the driver's commands    *)
(* in the middle of scan codes.                                            *)
LineIsWhatWasTyped ==
  fromKeyboard = <<>> =>
    /\ sh.command = line
    /\ LET text == S!VisibleText(sh)
           shown == PromptText \o line
       IN  SubSeq(text, Len(text) - Len(shown) + 1, Len(text)) = shown
=============================================================================
