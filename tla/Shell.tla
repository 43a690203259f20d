------------------------------- MODULE Shell -------------------------------
(***************************************************************************)
(* The shell (src/Shell.c): a ring of display characters, the line being   *)
(* typed, and the text on the screen.  Keyboard events reach the shell in  *)
(* the handler of IRQ 1, which nothing interrupts, so an event is one      *)
(* step.  The thread that booted the kernel (end of efi_main) prints and   *)
(* activates the prompt with interrupts enabled, so an event may fall      *)
(* between any two of its steps, of which a turn of a loop is one.         *)
(*                                                                         *)
(* Characters are symbols; widths are in pixels and lines are numbered     *)
(* from the top of the screen.                                             *)
(***************************************************************************)
EXTENDS Naturals, FiniteSets, SequencesExt

CONSTANTS
  RingSize,     \* DEXPROS_SHELL_NUM_MAX_DISPLAY_CHARACTERS
  MaxCommand,   \* DEXPROS_SHELL_NUM_MAX_COMMAND_CHARACTERS
  AdvanceX,     \* character -> advance of its glyph, 0 if it has none
  PromptText,
  BootText,     \* everything efi_main prints before the prompt
  ErrorText,    \* "Shell error: unknown command."
  Builtins,     \* g_DexprOS_ShellBuiltInCommands: set of [text, effect, output]
  TypedChars,   \* what the keyboard driver delivers, NewLine included
  Sessions      \* [width, height, keys, events, early], see session

NewLine == "NL"
Space == "SP"
Hash == "#"
Nul == "NUL"              \* the character 0, which has no glyph
BackspaceKey == "BACKSPACE"

(* What is printed before the first key is typed, and any prompt with its  *)
(* line, leave room in the ring.                                           *)
ASSUME SizesAssumption ==
  /\ RingSize \in Nat /\ MaxCommand \in Nat \ {0}
  /\ Len(PromptText) + MaxCommand < RingSize
  /\ Len(BootText) + Len(PromptText) < RingSize
  /\ AdvanceX[Nul] = 0
  /\ \A s \in Sessions :
       /\ {s.width, s.height, s.events, s.early} \subseteq Nat
       /\ s.keys \subseteq TypedChars \cup {BackspaceKey}

VARIABLES
  sh,     \* the DexprOS_Shell, with what is drawn on the screen
  boot,   \* the booting thread: [pc, left, start, end, i, cursor, scroll]
  early,  \* history: events while the prompt was being activated
  torn,   \* history: what they fell into the middle of, "scroll" or "draw"
  eventsLeft,
  session \* the console, and bounds: its width in pixels and height in lines,
          \* the keys used, the events, and those while the prompt is activated

history == <<early, torn, eventsLeft, session>>
vars == <<sh, boot, history>>

(* The lower part of the screen holds one line that is not used. *)
NumLines == IF session.height > 1 THEN session.height - 1 ELSE 1

-----------------------------------------------------------------------------
(* The ring of display characters. *)
Succ(i) == (i + 1) % RingSize
Distance(from, to) == (to + RingSize - from) % RingSize

(* What a loop from one index to another reads. *)
RingText(s, from, to) ==
  [k \in 1..Distance(from, to) |-> s.ring[(from + k - 1) % RingSize]]

Text(s) == RingText(s, s.start, s.end)
VisibleText(s) == RingText(s, s.first, s.end)

PutChar(s, c) ==
  LET end == Succ(s.end)
      push(i) == IF end = i THEN Succ(i) ELSE i
  IN  [s EXCEPT !.ring[s.end] = c, !.end = end,
                !.start = push(@), !.first = push(@)]

(* Puts keeps both ends of the ring in locals until it is done; where      *)
(* nothing interrupts it, that is one PutChar after the other.             *)
Puts(s, text) == FoldLeft(PutChar, s, text)

(* Faulty variant: the end does not go round the ring backwards. *)
DeleteLastDisplayCharNoWrap(s) == IF s.end = 0 THEN s ELSE [s EXCEPT !.end = @ - 1]

DeleteLastDisplayChar(s) ==
  IF s.start = s.end THEN s
  ELSE [s EXCEPT !.end = IF @ = 0 THEN RingSize - 1 ELSE @ - 1]

-----------------------------------------------------------------------------
(* Layout: the rule that ResetText, GetNumOverflowLines, ScrollDisplay and *)
(* SetText each apply to a character.                                      *)
TopLeft == [x |-> 0, line |-> 0]

Advance(cursor, c) ==
  IF c = NewLine THEN [x |-> 0, line |-> cursor.line + 1]
  ELSE IF cursor.x + AdvanceX[c] > session.width THEN [x |-> AdvanceX[c], line |-> cursor.line + 1]
  ELSE [cursor EXCEPT !.x = @ + AdvanceX[c]]

CursorAfter(text) == FoldLeft(Advance, TopLeft, text)

(* The glyph of a character that ends at the cursor, if it has one. *)
Glyph(c, cursor) ==
  IF c = NewLine \/ AdvanceX[c] = 0 THEN {}
  ELSE {[char |-> c, line |-> cursor.line, x |-> cursor.x - AdvanceX[c]]}

Glyphs(text) ==
  UNION {Glyph(text[k], CursorAfter(SubSeq(text, 1, k))) : k \in DOMAIN text}

(* How many characters a loop places before n lines are complete. *)
CharsBeforeLine(text, n) ==
  CHOOSE k \in 0..Len(text) :
    /\ k = Len(text) \/ CursorAfter(SubSeq(text, 1, k)).line = n
    /\ \A j \in 0..(k - 1) : CursorAfter(SubSeq(text, 1, j)).line # n

Blank == [i \in 0..(RingSize - 1) |-> Nul]

(* onScreenCharacters up to its terminator. *)
OnScreenText(s) ==
  LET cells == [k \in 1..RingSize |-> s.onScreen[k - 1]]
  IN  SubSeq(cells, 1, SelectInSeq(cells, LAMBDA c : c = Nul) - 1)

ResetText(s) ==
  [s EXCEPT !.screen = @ \ Glyphs(OnScreenText(s)), !.onScreen = Blank]

Overflow(lines) == IF lines >= NumLines THEN lines - NumLines + 1 ELSE 0
NumOverflowLines(s) == Overflow(CursorAfter(VisibleText(s)).line)

(* Stops on the first character after the one that completed the lines: a  *)
(* character that did not fit its line counts as a part of that line.      *)
ScrollDisplay(s, lines) ==
  [s EXCEPT !.first = (@ + CharsBeforeLine(VisibleText(s), lines)) % RingSize]

SetText(s) ==
  LET text == VisibleText(s)
      shown == SubSeq(text, 1, CharsBeforeLine(text, NumLines))
  IN  [s EXCEPT !.onScreen = [i \in DOMAIN @ |-> IF i < Len(shown) THEN shown[i + 1] ELSE @[i]],
                !.screen = @ \cup Glyphs(shown),
                !.cursor = CursorAfter(shown)]

FlushStdOut(s) == SetText(ScrollDisplay(ResetText(s), NumOverflowLines(s)))

-----------------------------------------------------------------------------
(* The command interpreter. *)
DropWhile(text, Test(_)) ==
  LET k == SelectInSeq(text, LAMBDA c : ~Test(c))
  IN  IF k = 0 THEN <<>> ELSE SubSeq(text, k, Len(text))

IsSpace(c) == c = Space

(* Faulty variant: the name need not be a whole word. *)
CheckSingleCommandPrefix(line, name) == IsPrefix(name, line)

CheckSingleCommand(line, name) ==
  /\ IsPrefix(name, line)
  /\ Len(line) = Len(name) \/ line[Len(name) + 1] = Space

ExtractArguments(line) == DropWhile(DropWhile(line, LAMBDA c : c # Space), IsSpace)

(* Faulty variant: the screen is forgotten, not erased. *)
ClearWithoutErasing(s) ==
  [s EXCEPT !.start = 0, !.end = 0, !.first = 0, !.onScreen = Blank, !.cursor = TopLeft]

Clear(s) ==
  [ResetText(s) EXCEPT !.start = 0, !.end = 0, !.first = 0, !.cursor = TopLeft]

(* The effects of the built-in commands; the firmware's ResetSystem, which *)
(* shutdown and reboot call, does not return.                              *)
CommandFunc(s, builtin, arguments) ==
  CASE builtin.effect = "echo" -> PutChar(Puts(s, arguments), NewLine)
    [] builtin.effect = "clear" -> Clear(s)
    [] builtin.effect = "print" -> Puts(s, builtin.output)
    [] builtin.effect = "reset" -> [s EXCEPT !.running = FALSE]

InterpretCommand(s, typed) ==
  LET line == DropWhile(typed, IsSpace)
      matching == {b \in Builtins : CheckSingleCommand(line, b.text)}
  IN  IF line = <<>> \/ Head(line) = Hash THEN s
      ELSE IF matching # {}
      THEN CommandFunc(s, CHOOSE b \in matching : TRUE, ExtractArguments(line))
      ELSE Puts(s, ErrorText)

(* The two callbacks of the keyboard driver, for an enabled prompt. *)
EnterCommand(s) ==
  LET done == InterpretCommand(PutChar(s, NewLine), s.command)
  IN  IF ~done.running THEN done
      ELSE FlushStdOut(Puts([done EXCEPT !.command = <<>>], PromptText))

TypeChar(s, c) ==
  IF Len(s.command) = MaxCommand THEN s
  ELSE FlushStdOut(PutChar([s EXCEPT !.command = Append(@, c)], c))

KeyboardCharacterEvent(s, c) == IF c = NewLine THEN EnterCommand(s) ELSE TypeChar(s, c)

Backspace(s) ==
  IF s.command = <<>> THEN s
  ELSE FlushStdOut(DeleteLastDisplayChar([s EXCEPT !.command = Front(@)]))

-----------------------------------------------------------------------------
(* DexprOS_CreateShell. *)
Created ==
  [ring |-> Blank, start |-> 0, end |-> 0, first |-> 0,
   onScreen |-> Blank, screen |-> {}, cursor |-> TopLeft,
   command |-> <<>>, enabled |-> FALSE, running |-> TRUE]

(* The booting thread outside of the calls below. *)
Idle(pc) ==
  [pc |-> pc, left |-> <<>>, start |-> 0, end |-> 0, i |-> 0, cursor |-> TopLeft, scroll |-> 0]

Init ==
  /\ sh = Created /\ boot = Idle("print")
  /\ session \in Sessions
  /\ early = 0 /\ torn = {} /\ eventsLeft = session.events

At(pc) == sh.running /\ boot.pc = pc
Goto(pc) == boot' = [boot EXCEPT !.pc = pc]

(* The rest of efi_main.  Until the prompt is enabled the handlers return  *)
(* at once, so everything printed before it counts as one step.            *)
BootPrint == At("print") /\ sh' = Puts(sh, BootText) /\ Goto("enable") /\ UNCHANGED history

(* DexprOS_ShellActivatePrompt, with the events that may come in between.  *)
EnablePrompt ==
  At("enable") /\ sh' = [sh EXCEPT !.enabled = TRUE] /\ Goto("puts") /\ UNCHANGED history

PutsPromptEntered ==
  /\ At("puts")
  /\ boot' = [boot EXCEPT !.pc = "putting", !.left = PromptText,
                          !.start = sh.start, !.end = sh.end]
  /\ UNCHANGED <<sh, history>>

PutsPromptChar ==
  LET end == Succ(boot.end)
      push(i) == IF end = i THEN Succ(i) ELSE i
  IN  /\ At("putting") /\ boot.left # <<>>
      /\ sh' = [sh EXCEPT !.ring[boot.end] = Head(boot.left), !.first = push(@)]
      /\ boot' = [boot EXCEPT !.left = Tail(@), !.end = end, !.start = push(@)]
      /\ UNCHANGED history

PutsPromptStart ==
  /\ At("putting") /\ boot.left = <<>>
  /\ sh' = [sh EXCEPT !.start = boot.start]
  /\ Goto("put") /\ UNCHANGED history

PutsPromptEnd ==
  /\ At("put")
  /\ sh' = [sh EXCEPT !.end = boot.end]
  /\ boot' = Idle("flush") /\ UNCHANGED history

(* DexprOS_ShellFlushStdOut.  A loop begins at an index that it reads once *)
(* and compares it with the end of the ring as it is on each turn; SetText *)
(* is the only one that is given the end.  Undisturbed, each loop does     *)
(* what the operator of the same name does.                                *)
CountEntered ==
  /\ At("flush")
  /\ boot' = [boot EXCEPT !.pc = "count", !.i = sh.first]
  /\ UNCHANGED <<sh, history>>

CountChar ==
  /\ At("count") /\ boot.i # sh.end
  /\ boot' = [boot EXCEPT !.i = Succ(@), !.cursor = Advance(@, sh.ring[boot.i])]
  /\ UNCHANGED <<sh, history>>

CountDone ==
  /\ At("count") /\ boot.i = sh.end
  /\ boot' = [Idle("erase") EXCEPT !.scroll = Overflow(boot.cursor.line)]
  /\ UNCHANGED <<sh, history>>

ResetErase ==
  LET c == sh.onScreen[boot.i]
      cursor == Advance(boot.cursor, c)
  IN  /\ At("erase") /\ c # Nul
      /\ sh' = [sh EXCEPT !.screen = @ \ Glyph(c, cursor)]
      /\ boot' = [boot EXCEPT !.i = @ + 1, !.cursor = cursor]
      /\ UNCHANGED history

ResetErased ==
  /\ At("erase") /\ sh.onScreen[boot.i] = Nul
  /\ boot' = [boot EXCEPT !.pc = "forget", !.i = 0, !.cursor = TopLeft]
  /\ UNCHANGED <<sh, history>>

ResetForget ==
  /\ At("forget") /\ boot.i < RingSize
  /\ sh' = [sh EXCEPT !.onScreen[boot.i] = Nul]
  /\ boot' = [boot EXCEPT !.i = @ + 1]
  /\ UNCHANGED history

ScrollEntered ==
  /\ At("forget") /\ boot.i = RingSize
  /\ boot' = [boot EXCEPT !.pc = "scroll", !.i = sh.first]
  /\ UNCHANGED <<sh, history>>

ScrollChar ==
  /\ At("scroll") /\ boot.i # sh.end /\ boot.cursor.line # boot.scroll
  /\ boot' = [boot EXCEPT !.i = Succ(@), !.cursor = Advance(@, sh.ring[boot.i])]
  /\ UNCHANGED <<sh, history>>

ScrollDone ==
  /\ At("scroll") /\ (boot.i = sh.end \/ boot.cursor.line = boot.scroll)
  /\ Goto("store") /\ UNCHANGED <<sh, history>>

ScrollStore ==
  /\ At("store") /\ sh' = [sh EXCEPT !.first = boot.i]
  /\ boot' = Idle("settext") /\ UNCHANGED history

SetTextCalled ==
  /\ At("settext")
  /\ boot' = [boot EXCEPT !.pc = "home", !.i = sh.first, !.start = sh.first, !.end = sh.end]
  /\ UNCHANGED <<sh, history>>

SetTextEntered ==
  At("home") /\ sh' = [sh EXCEPT !.cursor = TopLeft] /\ Goto("draw") /\ UNCHANGED history

SetTextChar ==
  LET c == sh.ring[boot.i]
      cursor == Advance(sh.cursor, c)
  IN  /\ At("draw") /\ boot.i # boot.end /\ sh.cursor.line # NumLines
      /\ sh' = [sh EXCEPT !.onScreen[Distance(boot.start, boot.i)] = c,
                          !.screen = @ \cup Glyph(c, cursor), !.cursor = cursor]
      /\ boot' = [boot EXCEPT !.i = Succ(@)]
      /\ UNCHANGED history

SetTextDone ==
  /\ At("draw") /\ (boot.i = boot.end \/ sh.cursor.line = NumLines)
  /\ boot' = Idle("idle") /\ UNCHANGED <<sh, history>>

BootStep ==
  \/ BootPrint \/ EnablePrompt
  \/ PutsPromptEntered \/ PutsPromptChar \/ PutsPromptStart \/ PutsPromptEnd
  \/ CountEntered \/ CountChar \/ CountDone
  \/ ResetErase \/ ResetErased \/ ResetForget
  \/ ScrollEntered \/ ScrollChar \/ ScrollDone \/ ScrollStore
  \/ SetTextCalled \/ SetTextEntered \/ SetTextChar \/ SetTextDone

(* What is torn by an event now: the lines are counted and scrolled, or    *)
(* the screen is erased and drawn.                                         *)
Torn ==
  (IF boot.pc \in {"count", "erase", "forget", "scroll", "store"} THEN {"scroll"} ELSE {}) \cup
  (IF boot.pc \in {"erase", "forget", "scroll", "store", "settext", "home", "draw"} THEN {"draw"} ELSE {})

(* IRQ 1: a character, or backspace pressed or repeated.  A command run    *)
(* early may have written anything, so it counts as a whole ring.          *)
Event(key, after) ==
  /\ sh.running /\ sh.enabled /\ key \in session.keys
  /\ eventsLeft > 0 /\ eventsLeft' = eventsLeft - 1
  /\ \/ boot.pc = "idle" /\ UNCHANGED early
     \/ /\ boot.pc # "idle" /\ session.events - eventsLeft < session.early
        /\ early' = early + (IF key = NewLine THEN RingSize ELSE 1)
  /\ torn' = torn \cup Torn
  /\ sh' = after
  /\ UNCHANGED <<boot, session>>

CharacterTyped(c) == Event(c, KeyboardCharacterEvent(sh, c))
BackspaceTyped == Event(BackspaceKey, Backspace(sh))

Next ==
  \/ BootStep
  \/ \E c \in TypedChars : CharacterTyped(c)
  \/ BackspaceTyped

Spec == Init /\ [][Next]_vars

-----------------------------------------------------------------------------
(* Properties. *)
Indices == 0..(RingSize - 1)

(* Whatever is typed and whenever, the indices stay inside the ring, the   *)
(* line inside commandCharacters, and the text on the screen short enough  *)
(* for the terminator that ResetText stops at.                             *)
TextIsInBounds ==
  /\ sh.start \in Indices /\ sh.end \in Indices /\ sh.first \in Indices
  /\ {boot.start, boot.end} \subseteq Indices
  /\ boot.i \in Indices \/ boot.pc = "forget"
  /\ Len(sh.command) <= MaxCommand
  /\ sh.onScreen[RingSize - 1] = Nul

(* The line being typed lies in the text from the first character shown on, *)
(* so that erasing it never takes the end behind that character, where the *)
(* loops that draw would run round the whole ring.  This needs a console   *)
(* with room for the longest line.  It survives keys typed before the      *)
(* prompt is drawn, which overtake the prompt and are overwritten by it,   *)
(* as long as there are no more of them than the prompt has characters and *)
(* none of them is Enter; and keys typed while it is drawn.  It does not   *)
(* survive one that comes while the thread counts or scrolls: the lines    *)
(* may be scrolled twice, or counted round the whole ring.                 *)
LineIsInText ==
  "scroll" \notin torn /\ early <= Len(PromptText) =>
    Distance(sh.start, sh.first) + Len(sh.command) <= Distance(sh.start, sh.end)

(* Once the prompt is up, the visible text ends with the prompt and with   *)
(* exactly the line that Enter would run, through wrapping, scrolling,     *)
(* the ring running full, backspace and clear; and at any time what is     *)
(* visible is a part of the ring's text (TextIsInBounds, LineIsInText).    *)
CommandIsVisible ==
  /\ TextIsInBounds
  /\ LineIsInText
  /\ early = 0 /\ boot.pc = "idle" /\ sh.running =>
       IsSuffix(PromptText \o sh.command, VisibleText(sh))

(* Every flush leaves the glyphs of the visible text on the screen: none   *)
(* of an earlier text is left behind, none is missing and, unless the      *)
(* count of lines was interrupted, none is below the last line.  What a    *)
(* key draws during the activation is erased again by the thread, if the   *)
(* key comes before the thread has begun to erase.                         *)
ScreenShowsText ==
  "draw" \notin torn /\ boot.pc = "idle" /\ sh.running =>
    /\ sh.screen = Glyphs(VisibleText(sh))
    /\ sh.cursor = CursorAfter(VisibleText(sh))
    /\ torn = {} => sh.cursor.line < NumLines
=============================================================================
