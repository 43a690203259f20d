------------------------- MODULE PS2KeyboardSystem -------------------------
(***************************************************************************)
(* The driver connected to a keyboard and a user.  The keyboard is not     *)
(* part of the repository: it is modelled from the bytes the driver sends  *)
(* and expects.  It answers every byte it receives, the command byte and   *)
(* the data byte separately, while the driver writes both without waiting  *)
(* and takes the first answer for the whole command.                       *)
(***************************************************************************)
EXTENDS PS2KeyboardDriver, FiniteSets

CONSTANTS
  MakeCode,    \* key -> bytes sent when it is pressed or repeats
  BreakCode,   \* key -> bytes sent when it is released, <<>> if none
  Sessions     \* what may happen: a set of [keys, presses, waiting, faults],
               \* the keys the user presses and three bounds: on presses and
               \* repeats, on bytes waiting when the user acts, and on bytes
               \* that reach the keyboard garbled

ASSUME UserAssumption ==
  Sessions \subseteq [keys : SUBSET DOMAIN MakeCode, presses : Nat, waiting : Nat, faults : Nat]

(* Bytes that the tables give a key and an action: they lead from the      *)
(* global table through n sub-tables; the last of these has either a key   *)
(* for the byte that is left, or a sequence of all the bytes left.         *)
LeadsThrough(path, n, code) ==
  /\ path[0] = GlobalTable
  /\ \A i \in 1..n : /\ code[i] \in DOMAIN ByteExtendCodes[path[i - 1]]
                     /\ path[i] = ByteExtendCodes[path[i - 1]][code[i]]

EntryFor(t, bytes, key, action) ==
  LET starting == {s \in SpecialSequences[t] : Head(s.bytes) = Head(bytes)}
  IN  /\ Head(bytes) \notin DOMAIN ByteExtendCodes[t]
      /\ \/ /\ Len(bytes) = 1 /\ starting = {} /\ Head(bytes) \in DOMAIN KeysPerByte[t]
            /\ KeysPerByte[t][Head(bytes)] = [key |-> key, action |-> action]
         \/ starting = {[bytes |-> bytes, key |-> key, action |-> action]}

IsCodeOf(code, key, action) ==
  /\ code \in Seq(Nat \ ResponseCodes) /\ code # <<>>
  /\ \E n \in 0..(Len(code) - 1) : \E path \in [0..n -> ScanTables] :
       /\ LeadsThrough(path, n, code)
       /\ EntryFor(path[n], SubSeq(code, n + 1, Len(code)), key, action)

(* The keyboard sends the codes of the driver's tables, and the user's     *)
(* lock keys tell when they are released.                                  *)
ASSUME CodesAssumption ==
  /\ DOMAIN MakeCode \subseteq Keys \ {Unknown}
  /\ \A k \in DOMAIN MakeCode :
       /\ IsCodeOf(MakeCode[k], k, IF BreakCode[k] = <<>> THEN "PRESSED_RELEASED" ELSE "PRESSED")
       /\ BreakCode[k] # <<>> => IsCodeOf(BreakCode[k], k, "RELEASED")
       /\ k \in LockKeys => BreakCode[k] # <<>>

(* The queue holds the reset, the commands of InitialisePS2Keyboard and    *)
(* one command for every press that may switch a lock.                     *)
ASSUME RoomAssumption == \A s \in Sessions : s.presses + 5 <= MaxCommands

VARIABLES
  toKeyboard,    \* bytes on their way to the keyboard
  fromKeyboard,  \* bytes on their way to the data port, each raising IRQ 1
  device,        \* [leds, expecting, applied]
  held,          \* the keys the user is holding
  oddPresses,    \* the keys pressed an odd number of times so far
  session, pressesLeft, faultsLeft

environment == <<held, oddPresses, session, pressesLeft, faultsLeft>>
sysVars == <<vars, toKeyboard, fromKeyboard, device, environment>>

-----------------------------------------------------------------------------
(* The keyboard. *)
PoweredOn == [leds |-> 0, expecting |-> 0, applied |-> {}]

Settings == {SetScanCodeSet, SetTypematicByte, EnableScanning}

IsCommandByte(byte) == byte >= SetLedStates

(* What the keyboard answers to a byte, and what it becomes. *)
Answer(d, byte) ==
  CASE byte = ResetCommand -> <<CommandAcknowledged, 170>>
    [] byte \in CommandsWithData \cup {EnableScanning} -> <<CommandAcknowledged>>
    [] ~IsCommandByte(byte) /\ d.expecting # 0 -> <<CommandAcknowledged>>
    [] OTHER -> <<ResendRequest>>

Received(d, byte) ==
  CASE byte = ResetCommand -> PoweredOn
    [] byte \in CommandsWithData -> [d EXCEPT !.expecting = byte]
    [] byte = EnableScanning -> [d EXCEPT !.expecting = 0, !.applied = @ \cup {byte}]
    [] ~IsCommandByte(byte) /\ d.expecting = SetLedStates ->
         [d EXCEPT !.expecting = 0, !.leds = byte]
    [] ~IsCommandByte(byte) /\ d.expecting \in Settings ->
         [d EXCEPT !.expecting = 0, !.applied = @ \cup {d.expecting}]
    [] OTHER -> d

(* The controller holds one byte, the others are still in the keyboard: an *)
(* answer overtakes them, also in the middle of a scan code, but no        *)
(* earlier answer.                                                         *)
SentBefore ==
  {i \in DOMAIN fromKeyboard :
     i = 1 \/ \E j \in i..Len(fromKeyboard) : fromKeyboard[j] \in ResponseCodes}

Sends(answer) ==
  LET n == Cardinality(SentBefore)
  IN  fromKeyboard' = SubSeq(fromKeyboard, 1, n) \o answer \o SubSeq(fromKeyboard, n + 1, Len(fromKeyboard))

DeviceReceive ==
  /\ toKeyboard # <<>>
  /\ toKeyboard' = Tail(toKeyboard)
  /\ device' = Received(device, Head(toKeyboard))
  /\ Sends(Answer(device, Head(toKeyboard)))
  /\ UNCHANGED <<vars, environment>>

(* A byte arrives garbled: the keyboard drops it and asks for it again. *)
DeviceReceiveGarbled ==
  /\ toKeyboard # <<>>
  /\ faultsLeft > 0
  /\ faultsLeft' = faultsLeft - 1
  /\ toKeyboard' = Tail(toKeyboard)
  /\ Sends(<<ResendRequest>>)
  /\ UNCHANGED <<vars, device, held, oddPresses, session, pressesLeft>>

-----------------------------------------------------------------------------
(* The user, who is no faster than the bound on waiting bytes lets through.*)
Slow == Len(fromKeyboard) <= session.waiting

Press(k) ==
  /\ Slow
  /\ pressesLeft > 0
  /\ k \notin held
  /\ pressesLeft' = pressesLeft - 1
  /\ held' = IF BreakCode[k] = <<>> THEN held ELSE held \cup {k}
  /\ oddPresses' = IF k \in oddPresses THEN oddPresses \ {k} ELSE oddPresses \cup {k}
  /\ fromKeyboard' = fromKeyboard \o MakeCode[k]
  /\ UNCHANGED <<vars, toKeyboard, device, session, faultsLeft>>

(* Typematic repeat of a held key. *)
Repeat(k) ==
  /\ Slow
  /\ pressesLeft > 0
  /\ k \in held
  /\ pressesLeft' = pressesLeft - 1
  /\ fromKeyboard' = fromKeyboard \o MakeCode[k]
  /\ UNCHANGED <<vars, toKeyboard, device, held, oddPresses, session, faultsLeft>>

Release(k) ==
  /\ Slow
  /\ k \in held
  /\ held' = held \ {k}
  /\ fromKeyboard' = fromKeyboard \o BreakCode[k]
  /\ UNCHANGED <<vars, toKeyboard, device, oddPresses, session, pressesLeft, faultsLeft>>

-----------------------------------------------------------------------------
(* IRQ 1: the driver takes the next byte and may write a command. *)
Interrupt ==
  /\ fromKeyboard # <<>>
  /\ ProcessKeyboardInterrupt(Head(fromKeyboard))
  /\ fromKeyboard' = Tail(fromKeyboard)
  /\ toKeyboard' = toKeyboard \o chan'.written
  /\ UNCHANGED <<device, environment>>

SystemInit ==
  /\ Init
  /\ toKeyboard = chan.written
  /\ fromKeyboard = <<>>
  /\ device = PoweredOn
  /\ held = {} /\ oddPresses = {}
  /\ session \in Sessions
  /\ pressesLeft = session.presses /\ faultsLeft = session.faults

SystemNext ==
  \/ DeviceReceive
  \/ DeviceReceiveGarbled
  \/ \E k \in session.keys : Press(k) \/ Repeat(k) \/ Release(k)
  \/ Interrupt

(* The keyboard answers what it receives and the interrupt of a waiting    *)
(* byte is eventually taken (the kernel idles with interrupts enabled).    *)
(* Nothing is assumed of the user.                                         *)
SystemFairness == WF_sysVars(DeviceReceive) /\ WF_sysVars(Interrupt)

SystemSpec == SystemInit /\ [][SystemNext]_sysVars /\ SystemFairness

-----------------------------------------------------------------------------
WireIdle == toKeyboard = <<>> /\ fromKeyboard = <<>>

(* Although answers are credited to the wrong command (two answers to a    *)
(* two-byte command, an answer to a resent one, answers that arrive when   *)
(* the driver is already idle), no command is left in the queue behind an  *)
(* answer that cannot come any more.                                       *)
NeverStuck == WireIdle => chan.queue = <<>>

(* No command is left behind (NeverStuck); and when every byte was         *)
(* delivered and none was garbled, the keyboard shows the LEDs of the lock *)
(* state and has taken all the settings of InitialisePS2Keyboard.  The     *)
(* queue must not fill up (RoomAssumption): a full one drops a command.    *)
KeyboardIsConfigured ==
  /\ NeverStuck
  /\ WireIdle /\ faultsLeft = session.faults => device.leds = LedBits(locks) /\ device.applied = Settings

(* What the driver believes of the keys is what the user is doing, once    *)
(* the bytes are delivered; answers between the scan codes, prefixes and   *)
(* the print screen and pause sequences do not disturb it.                 *)
KeyStatesMatchUser ==
  fromKeyboard = <<>> =>
    \A k \in session.keys : keyStates[k] # "RELEASED" <=> k \in held

(* A lock is on after an odd number of presses of its key, and during the  *)
(* press that will switch it off: a press switches it exactly once, however*)
(* long it is held and repeats.                                            *)
LocksCountPresses ==
  fromKeyboard = <<>> =>
    \A k \in LockKeys \cap session.keys : locks[k].active <=> k \in oddPresses \cup held

(* The driver always gets back to idle with nothing left on the wires.     *)
EventuallyIdle == []<>(WireIdle /\ chan.queue = <<>>)
=============================================================================
