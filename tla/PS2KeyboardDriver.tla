------------------------- MODULE PS2KeyboardDriver -------------------------
(***************************************************************************)
(* The PS/2 keyboard driver (src/Drivers/Keyboard/PS2KeyboardDriver.c).    *)
(* The driver runs only in the handler of IRQ 1, behind an interrupt gate, *)
(* so one byte read from the data port is one atomic step.  A step is      *)
(* handed an arbitrary byte of InputCodes: the keyboard is not assumed to  *)
(* follow its protocol here (PS2KeyboardSystem adds one that does).        *)
(*                                                                         *)
(* The scan code tables and the layout are constants, so that what is      *)
(* proved holds for every table; PS2ScanCodeSet2 gives the kernel's.       *)
(***************************************************************************)
EXTENDS Naturals, Sequences

CONSTANTS
  MaxCommands,       \* DEXPROS_PS2_KEYBOARD_MAX_CMD_BUFFER_SIZE
  MaxResends,        \* DEXPROS_PS2_KEYBOARD_MAX_CMD_RESENDS
  Keys,              \* the key IDs, Unknown (0) included
  ScanTables,        \* the tables reachable from the global one
  GlobalTable,       \* pGlobalScanCodeSetTable
  ByteExtendCodes,   \* table -> (extender byte -> sub-table)
  SpecialSequences,  \* table -> set of [bytes, key, action]
  KeysPerByte,       \* table -> (byte -> [key, action])
  UnicodeTable,      \* key -> [type, codes]
  InputCodes         \* the bytes the keyboard may send

Unknown == "UNKNOWN"    \* DEXPROS_KEY_UNKNOWN, key ID 0

LockKeys == {"CAPS_LOCK", "NUM_LOCK", "SCROLL_LOCK"}
ShiftKeys == {"LEFT_SHIFT", "RIGHT_SHIFT"}
ControlKeys == {"LEFT_CONTROL", "RIGHT_CONTROL"}
SpecialKeys == LockKeys \cup ShiftKeys \cup ControlKeys \cup {"LEFT_ALT", "RIGHT_ALT"}

KeyActions == {"NONE", "RELEASED", "PRESSED", "PRESSED_RELEASED"}
MapKeys == [key : Keys, action : KeyActions]
SequenceRecords == [bytes : Seq(Nat), key : Keys, action : KeyActions]

ASSUME QueueAssumption ==
  /\ MaxCommands \in Nat \ {0}
  /\ MaxResends \in Nat

ASSUME KeysAssumption == SpecialKeys \cup {Unknown} \subseteq Keys

(* The shape of a PS2KeyboardScanCodes table.  A special sequence starts   *)
(* with a byte and is listed once.                                         *)
ASSUME TablesAssumption ==
  /\ GlobalTable \in ScanTables
  /\ \A t \in ScanTables :
       /\ \A c \in DOMAIN ByteExtendCodes[t] : ByteExtendCodes[t][c] \in ScanTables
       /\ \A c \in DOMAIN KeysPerByte[t] : KeysPerByte[t][c] \in MapKeys
       /\ \A s \in SpecialSequences[t] : s \in SequenceRecords /\ s.bytes # <<>>

-----------------------------------------------------------------------------
(* Bytes of the protocol. *)
KeyDetectionErrors == {0, 255}
SelfTestResults == {170, 252, 253}
Echo == 238
CommandAcknowledged == 250
ResendRequest == 254
ResponseCodes == KeyDetectionErrors \cup SelfTestResults
                   \cup {Echo, CommandAcknowledged, ResendRequest}

ResetCommand == 255
SetLedStates == 237
SetScanCodeSet == 240
SetTypematicByte == 243
EnableScanning == 244

(* A command with its data byte as the driver queues them.  Only some      *)
(* commands put the data byte on the port.                                 *)
Command(command, data) == [command |-> command, data |-> data]
Commands == [command : Nat, data : Nat]
CommandsWithData == {SetLedStates, SetScanCodeSet, SetTypematicByte, 251, 252, 253}
CommandBytes(c) == IF c.command \in CommandsWithData THEN <<c.command, c.data>>
                                                     ELSE <<c.command>>

VARIABLES
  chan,       \* [queue, state, resends, written]: the command channel; written
              \* holds the bytes the last step put on the data port
  decoder,    \* [mode, table, sequence, index]: where in a scan code we are
  keyStates,  \* key -> RELEASED, PRESSED or REPEAT
  locks,      \* lock key -> [active, justActivated]
  mods,       \* [shift, control, leftAlt, rightAlt]
  events      \* the calls the last step made to the shell, in order

vars == <<chan, decoder, keyStates, locks, mods, events>>

-----------------------------------------------------------------------------
(* The command channel: operators on the value of chan. *)

(* The state goes through EXECUTING to WAITING inside this one call. *)
ExecuteCommand(c) ==
  [c EXCEPT !.state = "WAITING", !.written = @ \o CommandBytes(Head(c.queue))]

(* A full queue drops the command and tells nobody. *)
PushCommand(c, command) ==
  IF Len(c.queue) = MaxCommands THEN c
  ELSE LET pushed == [c EXCEPT !.queue = Append(@, command)]
       IN  IF c.state = "FREE" THEN ExecuteCommand(pushed) ELSE pushed

(* Faulty variants: the next command is not started; the buffer is shifted *)
(* the wrong way and the last command is lost in place of the first.       *)
NextCommandNotExecuted(c) ==
  [c EXCEPT !.state = "FREE", !.resends = 0, !.queue = IF @ = <<>> THEN @ ELSE Tail(@)]

NextCommandDropsLast(c) ==
  LET popped == [c EXCEPT !.state = "FREE", !.resends = 0,
                          !.queue = IF @ = <<>> THEN @ ELSE SubSeq(@, 1, Len(@) - 1)]
  IN  IF popped.queue # <<>> THEN ExecuteCommand(popped) ELSE popped

NextCommand(c) ==
  LET popped == [c EXCEPT !.state = "FREE", !.resends = 0,
                          !.queue = IF @ = <<>> THEN @ ELSE Tail(@)]
  IN  IF popped.queue # <<>> THEN ExecuteCommand(popped) ELSE popped

OnCommandAcknowledged(c) == IF c.state = "WAITING" THEN NextCommand(c) ELSE c

(* Faulty variants: one resend too many; resends not counted; no command   *)
(* given up at the limit.                                                  *)
ResendCommandOnceMore(c) ==
  IF c.queue = <<>> \/ c.state # "WAITING" THEN c
  ELSE IF c.resends <= MaxResends
       THEN [ExecuteCommand(c) EXCEPT !.resends = @ + 1]
       ELSE NextCommand(c)

ResendCommandUncounted(c) ==
  IF c.queue = <<>> \/ c.state # "WAITING" THEN c
  ELSE IF c.resends < MaxResends THEN ExecuteCommand(c) ELSE NextCommand(c)

ResendCommandNeverGivesUp(c) ==
  IF c.queue = <<>> \/ c.state # "WAITING" \/ c.resends = MaxResends THEN c
  ELSE [ExecuteCommand(c) EXCEPT !.resends = @ + 1]

ResendCommand(c) ==
  IF c.queue = <<>> \/ c.state # "WAITING" THEN c
  ELSE IF c.resends < MaxResends
       THEN [ExecuteCommand(c) EXCEPT !.resends = @ + 1]
       ELSE NextCommand(c)

Bit(b, weight) == IF b THEN weight ELSE 0
LedBits(lk) == Bit(lk["SCROLL_LOCK"].active, 1) + Bit(lk["NUM_LOCK"].active, 2)
                 + Bit(lk["CAPS_LOCK"].active, 4)

(* Faulty variant: the LEDs are only sent when the driver is idle. *)
UpdateIndicatorLEDsIfFree(c, lk) ==
  IF c.state = "FREE" THEN PushCommand(c, Command(SetLedStates, LedBits(lk))) ELSE c

UpdateIndicatorLEDs(c, lk) == PushCommand(c, Command(SetLedStates, LedBits(lk)))

InitialiseKeyboard(c, lk) ==
  LET c1 == PushCommand(c, Command(SetScanCodeSet, 2))
      c2 == PushCommand(c1, Command(SetTypematicByte, 32))
      c3 == PushCommand(c2, Command(EnableScanning, 0))
  IN  UpdateIndicatorLEDs(c3, lk)

-----------------------------------------------------------------------------
(* Decoding a byte: the operators return the result, the new decoder and   *)
(* the key and action that were decoded.                                   *)

Result(result, d, key, action) ==
  [result |-> result, decoder |-> d, key |-> key, action |-> action]

PartiallyDecoded(d) == Result("PARTIAL", d, Unknown, "NONE")

(* Faulty variant: the table is not put back. *)
FinishedInSubTable(d, result, key, action) ==
  Result(result, [d EXCEPT !.mode = "LOOKUP"], key, action)

(* The handler puts mode and table back after a decoded key and after a    *)
(* failure alike; the sequence pointer and its index stay as they were.    *)
Finished(d, result, key, action) ==
  Result(result, [d EXCEPT !.mode = "LOOKUP", !.table = GlobalTable], key, action)

DecodedOrFailed(d, k) ==
  IF k.key # Unknown THEN Finished(d, "DECODED", k.key, k.action)
                     ELSE Finished(d, "FAILURE", Unknown, "NONE")

ProcessCodeByLookup(d, code) ==
  LET starting == {s \in SpecialSequences[d.table] : Head(s.bytes) = code}
      seq == CHOOSE s \in starting : TRUE
  IN  IF code \in DOMAIN ByteExtendCodes[d.table]
      THEN PartiallyDecoded([d EXCEPT !.table = ByteExtendCodes[d.table][code]])
      ELSE IF starting # {}
      THEN IF Len(seq.bytes) > 1
           THEN PartiallyDecoded([d EXCEPT !.mode = "SEQUENCE", !.sequence = seq, !.index = 1])
           ELSE DecodedOrFailed(d, seq)
      ELSE IF code \in DOMAIN KeysPerByte[d.table]
      THEN DecodedOrFailed(d, KeysPerByte[d.table][code])
      ELSE Finished(d, "FAILURE", Unknown, "NONE")

(* Faulty variant: the end of the sequence is noticed one byte late. *)
ProcessByteSequenceCodeLate(d, code) ==
  IF code # d.sequence.bytes[d.index + 1] THEN Finished(d, "FAILURE", Unknown, "NONE")
  ELSE IF d.index = Len(d.sequence.bytes) THEN DecodedOrFailed(d, d.sequence)
  ELSE PartiallyDecoded([d EXCEPT !.index = @ + 1])

ProcessByteSequenceCode(d, code) ==
  IF code # d.sequence.bytes[d.index + 1] THEN Finished(d, "FAILURE", Unknown, "NONE")
  ELSE IF d.index + 1 = Len(d.sequence.bytes) THEN DecodedOrFailed(d, d.sequence)
  ELSE PartiallyDecoded([d EXCEPT !.index = @ + 1])

Decode(d, code) ==
  IF d.mode = "LOOKUP" THEN ProcessCodeByLookup(d, code) ELSE ProcessByteSequenceCode(d, code)

-----------------------------------------------------------------------------
(* What a decoded key does to the key, lock and modifier state. *)

UpdateKeyState(old, action) ==
  CASE action = "PRESSED" -> IF old = "RELEASED" THEN "PRESSED" ELSE "REPEAT"
    [] action \in {"RELEASED", "PRESSED_RELEASED"} -> "RELEASED"
    [] action = "NONE" -> old

(* Faulty variant: every release switches the lock off. *)
SwitchLockOffAtRelease(lock, state) ==
  IF lock.active
  THEN IF state # "RELEASED" THEN lock ELSE [active |-> FALSE, justActivated |-> FALSE]
  ELSE IF state = "PRESSED" THEN [active |-> TRUE, justActivated |-> TRUE] ELSE lock

(* SwitchPS2KCapsLock, SwitchPS2KNumLock and SwitchPS2KScrollLock: a lock  *)
(* goes on when its key is pressed and off when a later press is released. *)
SwitchLock(lock, state) ==
  IF lock.active
  THEN IF state # "RELEASED" THEN lock
       ELSE IF lock.justActivated THEN [lock EXCEPT !.justActivated = FALSE]
       ELSE [lock EXCEPT !.active = FALSE]
  ELSE IF state = "PRESSED" THEN [active |-> TRUE, justActivated |-> TRUE] ELSE lock

AnyHeld(ks, keys) == \E k \in keys : ks[k] # "RELEASED"

(* Faulty variant: the control flag forgets the key of the other side. *)
UpdateModifiersOneSide(m, key, ks) ==
  CASE key \in ShiftKeys -> [m EXCEPT !.shift = AnyHeld(ks, ShiftKeys)]
    [] key \in ControlKeys -> [m EXCEPT !.control = AnyHeld(ks, {key})]
    [] key = "LEFT_ALT" -> [m EXCEPT !.leftAlt = AnyHeld(ks, {"LEFT_ALT"})]
    [] key = "RIGHT_ALT" -> [m EXCEPT !.rightAlt = AnyHeld(ks, {"RIGHT_ALT"})]
    [] OTHER -> m

UpdateModifiers(m, key, ks) ==
  CASE key \in ShiftKeys -> [m EXCEPT !.shift = AnyHeld(ks, ShiftKeys)]
    [] key \in ControlKeys -> [m EXCEPT !.control = AnyHeld(ks, ControlKeys)]
    [] key = "LEFT_ALT" -> [m EXCEPT !.leftAlt = AnyHeld(ks, {"LEFT_ALT"})]
    [] key = "RIGHT_ALT" -> [m EXCEPT !.rightAlt = AnyHeld(ks, {"RIGHT_ALT"})]
    [] OTHER -> m

(* Faulty variant: Shift does not undo Caps Lock. *)
CodepointShiftOrCapsLock(key, m, lk) ==
  LET entry == UnicodeTable[key]
      upper == m.shift \/ (entry.type = "CAPS_LOCK_AFFECTED" /\ lk["CAPS_LOCK"].active)
  IN  CASE entry.type \in {"CAPS_LOCK_AFFECTED", "CAPS_LOCK_UNAFFECTED"} /\ ~m.control /\ ~m.leftAlt ->
             IF upper THEN entry.codes.upperCase ELSE entry.codes.standard
        [] entry.type = "ENTER" -> entry.codes.standard
        [] OTHER -> 0

(* The codepoint a held key yields, 0 for none. *)
Codepoint(key, m, lk) ==
  LET entry == UnicodeTable[key]
      level(upper) ==
        IF upper THEN IF m.rightAlt THEN entry.codes.altGrUpperCase ELSE entry.codes.upperCase
                 ELSE IF m.rightAlt THEN entry.codes.altGr ELSE entry.codes.standard
      plain == ~m.control /\ ~m.leftAlt
  IN  CASE entry.type = "CAPS_LOCK_AFFECTED" /\ plain ->
             level(m.shift # lk["CAPS_LOCK"].active)
        [] entry.type = "CAPS_LOCK_UNAFFECTED" /\ plain -> level(m.shift)
        [] entry.type = "NUMBERPAD" /\ plain /\ lk["NUM_LOCK"].active -> entry.codes.standard
        [] entry.type = "ENTER" -> entry.codes.standard
        [] OTHER -> 0

KeyEvent(key, state) == [type |-> "key", key |-> key, state |-> state]
CharacterEvent(code) == [type |-> "character", code |-> code]

KeyToUnicodeCharacter(key, ks, m, lk) ==
  IF key = Unknown \/ ks[key] = "RELEASED" \/ Codepoint(key, m, lk) = 0 THEN <<>>
  ELSE <<CharacterEvent(Codepoint(key, m, lk))>>

-----------------------------------------------------------------------------
(* DexprOS_InitialisePS2KeyboardDriver, called before interrupts are       *)
(* enabled: everything released, everything off, the reset command sent.   *)
NoSequence == [bytes |-> <<>>, key |-> Unknown, action |-> "NONE"]
IdleChannel == [queue |-> <<>>, state |-> "FREE", resends |-> 0, written |-> <<>>]

Init ==
  /\ chan = PushCommand(IdleChannel, Command(ResetCommand, 0))
  /\ decoder = [mode |-> "LOOKUP", table |-> GlobalTable, sequence |-> NoSequence, index |-> 0]
  /\ keyStates = [k \in Keys |-> "RELEASED"]
  /\ locks = [k \in LockKeys |-> [active |-> FALSE, justActivated |-> FALSE]]
  /\ mods = [shift |-> FALSE, control |-> FALSE, leftAlt |-> FALSE, rightAlt |-> FALSE]
  /\ events = <<>>

(* DexprOS_ProcessPS2KeyboardInterrupt, by the byte that was read.         *)
Fresh == [chan EXCEPT !.written = <<>>]

(* Steps that touch the command channel only. *)
Respond(newChan) ==
  /\ chan' = newChan
  /\ events' = <<>>
  /\ UNCHANGED <<decoder, keyStates, locks, mods>>

IgnoreByte(code) == code \in KeyDetectionErrors \cup {Echo} /\ Respond(Fresh)

SelfTestDone(code) == code \in SelfTestResults /\ Respond(InitialiseKeyboard(Fresh, locks))

Acknowledge(code) == code = CommandAcknowledged /\ Respond(OnCommandAcknowledged(Fresh))

ResendRequested(code) == code = ResendRequest /\ Respond(ResendCommand(Fresh))

ScanCodeFailed(code) ==
  /\ code \notin ResponseCodes
  /\ Decode(decoder, code).result = "FAILURE"
  /\ decoder' = Decode(decoder, code).decoder
  /\ chan' = Fresh
  /\ events' = <<>>
  /\ UNCHANGED <<keyStates, locks, mods>>

(* A partly decoded code goes the same way, with key ID 0 and no action. *)
ScanCodeProcessed(code) ==
  LET r == Decode(decoder, code)
      ks == [keyStates EXCEPT ![r.key] = UpdateKeyState(@, r.action)]
      lk == IF r.key \in LockKeys
            THEN [locks EXCEPT ![r.key] = SwitchLock(@, ks[r.key])] ELSE locks
      m == UpdateModifiers(mods, r.key, ks)
      ledsChange == r.key \in LockKeys /\ lk[r.key].active # locks[r.key].active
  IN  /\ code \notin ResponseCodes
      /\ r.result # "FAILURE"
      /\ decoder' = r.decoder
      /\ keyStates' = ks
      /\ locks' = lk
      /\ mods' = m
      /\ chan' = IF ledsChange THEN UpdateIndicatorLEDs(Fresh, lk) ELSE Fresh
      /\ events' = <<KeyEvent(r.key, ks[r.key])>> \o KeyToUnicodeCharacter(r.key, ks, m, lk)

ProcessKeyboardInterrupt(code) ==
  \/ IgnoreByte(code)
  \/ SelfTestDone(code)
  \/ Acknowledge(code)
  \/ ResendRequested(code)
  \/ ScanCodeFailed(code)
  \/ ScanCodeProcessed(code)

Next == \E code \in InputCodes : ProcessKeyboardInterrupt(code)

Spec == Init /\ [][Next]_vars

-----------------------------------------------------------------------------
(* Properties. *)

Channels == [queue : Seq(Commands), state : {"FREE", "WAITING"},
             resends : 0..MaxResends, written : Seq(Nat)]
Decoders == [mode : {"LOOKUP", "SEQUENCE"}, table : ScanTables,
             sequence : SequenceRecords, index : Nat]

(* The state components have their types; the queue fits commandBuffer and *)
(* the resend counter stays within its limit.                              *)
TypeOK ==
  /\ chan \in Channels
  /\ Len(chan.queue) <= MaxCommands
  /\ decoder \in Decoders
  /\ keyStates \in [Keys -> {"RELEASED", "PRESSED", "REPEAT"}]
  /\ locks \in [LockKeys -> [active : BOOLEAN, justActivated : BOOLEAN]]
  /\ mods \in [shift : BOOLEAN, control : BOOLEAN, leftAlt : BOOLEAN, rightAlt : BOOLEAN]

(* Whatever bytes arrive, the driver waits for an answer exactly while     *)
(* commands are queued: an idle driver has nothing left to send, and a     *)
(* queued command has been written to the port or is behind one that was.  *)
(* Otherwise a command could sit in the queue with nobody to send it.      *)
QueueBusy == chan.queue = <<>> <=> chan.state = "FREE"

(* One interrupt writes at most one command, and it is the one the next    *)
(* answer is taken for: the head of the queue (ExecutePS2KeyboardCommand   *)
(* reads commandBuffer[0]).                                                *)
WritesTheHead ==
  chan.written # <<>> => chan.queue # <<>> /\ chan.written = CommandBytes(Head(chan.queue))

(* A special sequence is only compared at an index inside it, and only     *)
(* while the table it belongs to is current: pSequence[seqIndex] is never  *)
(* read out of bounds and pCurrentSpecialSequence is never NULL there.     *)
SequenceInBounds ==
  decoder.mode = "SEQUENCE" =>
    /\ decoder.sequence \in SpecialSequences[decoder.table]
    /\ decoder.index \in 1..(Len(decoder.sequence.bytes) - 1)

(* The cached modifier flags always agree with the states of the keys they *)
(* are computed from, for any interleaving of left and right keys.         *)
ModifiersMatchKeys ==
  /\ mods.shift = AnyHeld(keyStates, ShiftKeys)
  /\ mods.control = AnyHeld(keyStates, ControlKeys)
  /\ mods.leftAlt = AnyHeld(keyStates, {"LEFT_ALT"})
  /\ mods.rightAlt = AnyHeld(keyStates, {"RIGHT_ALT"})

(* A lock is on for as long as its key is held, and "just activated" lasts *)
(* no longer than the press that activated it: otherwise the next release  *)
(* would be swallowed and the lock would stay on.                          *)
LocksFollowKeys ==
  \A k \in LockKeys :
    /\ keyStates[k] # "RELEASED" => locks[k].active
    /\ locks[k].justActivated => keyStates[k] # "RELEASED"

(* The queue is first in, first out: a step removes at most the head and   *)
(* adds at the end, and never changes, reorders or loses another command.  *)
QueueIsFifo ==
  [][\E rest \in {chan.queue, IF chan.queue = <<>> THEN <<>> ELSE Tail(chan.queue)} :
       /\ Len(rest) <= Len(chan'.queue)
       /\ SubSeq(chan'.queue, 1, Len(rest)) = rest]_vars

(* Every time a command is written again it is counted, and a command that *)
(* becomes the head starts from zero: with the bound of TypeOK, no command *)
(* is put on the port more than MaxResends + 1 times.                      *)
EveryResendIsCounted ==
  [][chan.queue # <<>> /\ chan'.written # <<>> =>
       IF Len(chan'.queue) >= Len(chan.queue)
       THEN chan'.resends = chan.resends + 1
       ELSE chan'.resends = 0]_vars
=============================================================================
